---------------------------- MODULE Spec2Model ----------------------------
(***************************************************************************)
(* Tunnel inspection-lot tool (oioxoio-china/tunnel-inspection).           *)
(*                                                                         *)
(* The repository holds a series of whole-application snapshots of one     *)
(* Streamlit tool.  This module models the latest one,                     *)
(* src/streamlit_app_v12.py: its data classes, the demo data set, the      *)
(* InspectionCalculator and the session handlers of main().                *)
(*                                                                         *)
(* Conventions                                                             *)
(*  - Chainages and lengths are Python floats holding metres with three    *)
(*    decimals; here they are integers holding millimetres, so 182.908 m   *)
(*    is 182908 and the advance 1.6 m is 1600.  int(a / b) and             *)
(*    math.ceil(a / b) become exact integer quotients.                     *)
(*  - Chinese string literals are written in ASCII:                        *)
(*      methods    "open-cut" (明挖) "CD" (CD法) "bench" (台阶法)          *)
(*                 "portal" (洞口) "other" (其他)                          *)
(*      direction  "forward" (正向) "reverse" (反向)                       *)
(*      pages      "config" (参数配置) "calc" (检验批计算)                 *)
(*                 "dashboard" (统计看板) "reference" (标准查阅)           *)
(*  - Python list indices are 0-based; sequences here are 1-based, and     *)
(*    current_project_index keeps the Python (0-based) value.              *)
(*                                                                         *)
(* The validation pass of the section grid exists in the older editor      *)
(* src/tunnel-inspection4.1.py only (Tunnel.validate); section 6a models   *)
(* that editor, which runs in a session of its own.                        *)
(***************************************************************************)
EXTENDS Integers, Sequences, FiniteSets, TLC

VARIABLES
  projects,               \* st.session_state.projects : list of Project
  current_project_index,  \* st.session_state.current_project_index (0-based)
  page,                   \* the sidebar radio "前往:" (widget state)
  last_result,            \* st.session_state.last_result
  calc_input,             \* history variable: the Project the last calculate() read
  refused,                \* history variable: what the last run turned down, a
                          \* delete request or an import (the st.error it showed)
  saves,                  \* history variable: the form saves of the configuration page so far
  editor_tunnel,          \* tunnel-inspection4.1.py: the Tunnel that get_tunnel() returns
  editor_issues,          \* tunnel-inspection4.1.py: the banner under the section grid
  editor_runs             \* history variable: the runs of the 4.1 editor that changed its tunnel

vars == <<projects, current_project_index, page, last_result, calc_input, refused, saves, editor_tunnel, editor_issues, editor_runs>>

----------------------------------------------------------------------------
(* Bounds of the model.                                                    *)

\* most projects held in the session list
MaxProjects == 2
\* most tunnels a project is grown to with the add-tunnel button
MaxTunnels == 2
\* most segments of a tunnel in an imported configuration file or in a
\* grid grown by adding rows
MaxSegments == 2
\* most form saves (basic info, segment grid) of one session
MaxSaves == 2
\* grid saves in the session of the segment grid alone
MaxGridSaves == 1
\* changes made in one session of the tunnel-inspection4.1.py editor
MaxEditorRuns == 3

----------------------------------------------------------------------------
(* Small helpers.                                                          *)

Min(a, b) == IF a <= b THEN a ELSE b
Max(a, b) == IF a >= b THEN a ELSE b
Abs(a) == IF a >= 0 THEN a ELSE -a

\* Python int(a / b) for b > 0: the quotient truncated toward zero.
TruncDiv(a, b) == IF a >= 0 THEN a \div b ELSE -((-a) \div b)

\* Python math.ceil(a / b) for b > 0.
CeilDiv(a, b) == -((-a) \div b)

RECURSIVE SumSeq(_)
SumSeq(s) == IF s = <<>> THEN 0 ELSE Head(s) + SumSeq(Tail(s))

Range(s) == {s[k] : k \in DOMAIN s}

\* list.pop(i) / list.remove of the element at 1-based position k
RemoveAt(s, k) == [j \in 1..(Len(s) - 1) |-> IF j < k THEN s[j] ELSE s[j + 1]]

----------------------------------------------------------------------------
(* 2. Data classes.                                                        *)

TunnelSegment(name, method, length, start_mileage, end_mileage, frame_spacing, frames_per_ring, steps, trolley_length, advance_per_cycle, lining_type) ==
  [name |-> name, method |-> method, length |-> length,
   start_mileage |-> start_mileage, end_mileage |-> end_mileage,
   frame_spacing |-> frame_spacing, frames_per_ring |-> frames_per_ring,
   steps |-> steps, trolley_length |-> trolley_length,
   advance_per_cycle |-> advance_per_cycle, lining_type |-> lining_type]

Tunnel(id, name, total_length, start_mileage, end_mileage, start_label, end_label, is_main_line, trolley_length, direction, segments) ==
  [id |-> id, name |-> name, total_length |-> total_length,
   start_mileage |-> start_mileage, end_mileage |-> end_mileage,
   start_label |-> start_label, end_label |-> end_label,
   is_main_line |-> is_main_line, trolley_length |-> trolley_length,
   direction |-> direction, segments |-> segments]

Project(name, created_at, tunnels) ==
  [name |-> name, created_at |-> created_at, tunnels |-> tunnels]

\* datetime.now().strftime("%Y-%m-%d"): one fixed day
Today == "today"

----------------------------------------------------------------------------
(* 3. Helper functions and IO.                                             *)

\* Chainage text.  A text is kept as what it spells: the form
\* sign "K" km "+" metres that format_mileage writes (KText, the metres part
\* in millimetres), a plain number (NumText), the empty text, or a text
\* that spells no number (BadText).
KText(neg, km, m) == [kind |-> "K", neg |-> neg, km |-> km, m |-> m]
NumText(value) == [kind |-> "num", value |-> value]
EmptyText == [kind |-> "empty"]
BadText == [kind |-> "bad"]

\* parse_mileage: with a "+" the digits and the sign before it count
\* thousands and the part after it is added; without, the text is read as
\* a number; anything unreadable gives 0.0.
parse_mileage(km_str) ==
  CASE km_str.kind = "K" -> (IF km_str.neg THEN -km_str.km ELSE km_str.km) * 1000000 + km_str.m
    [] km_str.kind = "num" -> km_str.value
    [] OTHER -> 0

\* format_mileage: f"{sign}K{km}+{m:.3f}" of the absolute value
format_mileage(meters) ==
  KText(meters < 0, TruncDiv(Abs(meters), 1000000), Abs(meters) % 1000000)

\* dataclasses.asdict: a dict with one key per field of the instance, the
\* instances and lists inside it converted the same way
asdict_segment(seg) ==
  [name |-> seg.name, method |-> seg.method, length |-> seg.length,
   start_mileage |-> seg.start_mileage, end_mileage |-> seg.end_mileage,
   frame_spacing |-> seg.frame_spacing, frames_per_ring |-> seg.frames_per_ring,
   steps |-> seg.steps, trolley_length |-> seg.trolley_length,
   advance_per_cycle |-> seg.advance_per_cycle, lining_type |-> seg.lining_type]

\* asdict of a tunnel without the direction field
asdict_tunnel_without_direction(tunnel) ==
  [id |-> tunnel.id, name |-> tunnel.name, total_length |-> tunnel.total_length,
   start_mileage |-> tunnel.start_mileage, end_mileage |-> tunnel.end_mileage,
   start_label |-> tunnel.start_label, end_label |-> tunnel.end_label,
   is_main_line |-> tunnel.is_main_line, trolley_length |-> tunnel.trolley_length,
   segments |-> [k \in DOMAIN tunnel.segments |-> asdict_segment(tunnel.segments[k])]]

asdict_tunnel(tunnel) ==
  [id |-> tunnel.id, name |-> tunnel.name, total_length |-> tunnel.total_length,
   start_mileage |-> tunnel.start_mileage, end_mileage |-> tunnel.end_mileage,
   start_label |-> tunnel.start_label, end_label |-> tunnel.end_label,
   is_main_line |-> tunnel.is_main_line, trolley_length |-> tunnel.trolley_length,
   direction |-> tunnel.direction,
   segments |-> [k \in DOMAIN tunnel.segments |-> asdict_segment(tunnel.segments[k])]]

asdict(project) ==
  [name |-> project.name, created_at |-> project.created_at,
   tunnels |-> [k \in DOMAIN project.tunnels |-> asdict_tunnel(project.tunnels[k])]]

\* What json.loads makes of a configuration file: it raises (not
\* well_formed), or it returns the decoded dict, kept as the record whose
\* fields are the keys present in the file.
JsonDoc(data) == [well_formed |-> TRUE, data |-> data]
MalformedDoc == [well_formed |-> FALSE, data |-> <<>>]

\* export_project_to_json: the file json.dumps writes for asdict(project),
\* kept as what json.loads reads back from it
export_project_to_json(project) == JsonDoc(asdict(project))

\* Optional[Project]: None is the empty sequence, a project p is <<p>>.
None == <<>>

\* dict.get(key, default)
DictGet(d, key, default) == IF key \in DOMAIN d THEN d[key] ELSE default

\* Fields of TunnelSegment without and with a default value.
SegmentRequired == {"name", "method", "length", "start_mileage", "end_mileage"}
SegmentDefaults ==
  [frame_spacing |-> 800, frames_per_ring |-> 2, steps |-> 2,
   trolley_length |-> 12000, advance_per_cycle |-> 1600, lining_type |-> ""]

\* Fields of Tunnel without and with a default value (segments is always
\* passed by the importer).
TunnelRequired ==
  {"id", "name", "total_length", "start_mileage", "end_mileage",
   "start_label", "end_label", "is_main_line"}
TunnelDefaults == [trolley_length |-> 12000, direction |-> "forward"]

\* AcceptsKw of a constructor whose fields have no default values
AcceptsKw_all_fields(kw, required, defaults) ==
  DOMAIN kw = (required \cup DOMAIN defaults)

\* A dataclass constructor called with **kw: TypeError unless every field
\* without a default is given and no unknown keyword is given ...
AcceptsKw(kw, required, defaults) ==
  /\ required \subseteq DOMAIN kw
  /\ DOMAIN kw \subseteq (required \cup DOMAIN defaults)

\* ... and otherwise the instance, defaults filling the fields not given.
FromKw(kw, defaults) == kw @@ defaults

\* {k: v for k, v in t_data.items() if k != 'segments'}
t_data_clean(t_data) == [k \in DOMAIN t_data \ {"segments"} |-> t_data[k]]

import_tunnel_ok(t_data) ==
  /\ \A k \in DOMAIN DictGet(t_data, "segments", <<>>) :
        AcceptsKw(DictGet(t_data, "segments", <<>>)[k], SegmentRequired, SegmentDefaults)
  /\ AcceptsKw(t_data_clean(t_data), TunnelRequired, TunnelDefaults)

import_tunnel(t_data) ==
  LET s_data == DictGet(t_data, "segments", <<>>)
      segments == [k \in DOMAIN s_data |-> FromKw(s_data[k], SegmentDefaults)]
  IN  [segments |-> segments] @@ FromKw(t_data_clean(t_data), TunnelDefaults)

\* import_project_from_json reading the name with data.get('name', "")
import_project_from_json_unnamed(doc) ==
  IF ~doc.well_formed THEN None
  ELSE
    LET data == doc.data
        tunnels_data == DictGet(data, "tunnels", <<>>)
    IN  IF \A k \in DOMAIN tunnels_data : import_tunnel_ok(tunnels_data[k])
        THEN << Project(DictGet(data, "name", ""), DictGet(data, "created_at", Today),
                        [k \in DOMAIN tunnels_data |-> import_tunnel(tunnels_data[k])]) >>
        ELSE None

\* import_project_from_json: the Project built from the file, or None (after
\* st.error has shown the failure) when json.loads, a constructor or
\* data['name'] raises
import_project_from_json(doc) ==
  IF ~doc.well_formed THEN None
  ELSE
    LET data == doc.data
        tunnels_data == DictGet(data, "tunnels", <<>>)
    IN  IF /\ \A k \in DOMAIN tunnels_data : import_tunnel_ok(tunnels_data[k])
           /\ "name" \in DOMAIN data
        THEN << Project(data.name, DictGet(data, "created_at", Today),
                        [k \in DOMAIN tunnels_data |-> import_tunnel(tunnels_data[k])]) >>
        ELSE None

----------------------------------------------------------------------------
(* 4. Default data: the four tunnels of the demo project, as               *)
(* create_*_segments() parse them from the embedded survey table.          *)

create_zk_segments ==
  <<
    TunnelSegment("OpenCut-I-lining-38m", "open-cut", 38000, 245102, 283102, 38000, 1, 1, 12000, 38000, "OpenCut-I-lining-38m"),
    TunnelSegment("OpenCut-II-lining-20m", "open-cut", 20000, 283102, 303102, 20000, 1, 1, 12000, 20000, "OpenCut-II-lining-20m"),
    TunnelSegment("OpenCut-III-lining-99.990m", "open-cut", 99990, 303102, 403092, 99990, 1, 1, 12000, 99990, "OpenCut-III-lining-99.990m"),
    TunnelSegment("VB-grade-33m", "CD", 33000, 403092, 436092, 800, 1, 4, 12000, 800, "VB-grade-33m"),
    TunnelSegment("IVB-grade-20m", "CD", 20000, 436092, 456092, 800, 1, 4, 12000, 800, "IVB-grade-20m"),
    TunnelSegment("IVA-grade-182.908m", "bench", 182908, 456092, 639000, 800, 2, 2, 12000, 1600, "IVA-grade-182.908m"),
    TunnelSegment("EmergencyBay-42m", "CD", 42000, 639000, 681000, 800, 1, 4, 12000, 800, "EmergencyBay-42m"),
    TunnelSegment("IVA-grade-159m", "bench", 159000, 681000, 840000, 800, 2, 2, 12000, 1600, "IVA-grade-159m"),
    TunnelSegment("IVC-grade-27m", "bench", 27000, 840000, 867000, 800, 2, 2, 12000, 1600, "IVC-grade-27m"),
    TunnelSegment("IVA-grade-58m", "bench", 58000, 867000, 925000, 800, 2, 2, 12000, 1600, "IVA-grade-58m"),
    TunnelSegment("EmergencyBay-42m", "CD", 42000, 925000, 967000, 800, 1, 4, 12000, 800, "EmergencyBay-42m"),
    TunnelSegment("IVA-grade-90.449m", "bench", 90449, 967000, 1057449, 800, 2, 2, 12000, 1600, "IVA-grade-90.449m"),
    TunnelSegment("Overpass-38m", "CD", 38000, 1057449, 1095449, 800, 1, 4, 12000, 800, "Overpass-38m"),
    TunnelSegment("IVA-grade-154.551m", "bench", 154551, 1095449, 1250000, 800, 2, 2, 12000, 1600, "IVA-grade-154.551m"),
    TunnelSegment("VA-grade-103m", "bench", 103000, 1250000, 1353000, 800, 2, 2, 12000, 1600, "VA-grade-103m"),
    TunnelSegment("VB-grade-37m", "CD", 37000, 1353000, 1390000, 800, 1, 4, 12000, 800, "VB-grade-37m"),
    TunnelSegment("CutAndCover18m", "open-cut", 18000, 1390000, 1408000, 18000, 1, 1, 12000, 18000, "CutAndCover18m")
  >>

create_yk_segments ==
  <<
    TunnelSegment("OpenCut-I-lining-38m", "open-cut", 38000, 244803, 282803, 38000, 1, 1, 12000, 38000, "OpenCut-I-lining-38m"),
    TunnelSegment("OpenCut-II-lining-20m", "open-cut", 20000, 282803, 302803, 20000, 1, 1, 12000, 20000, "OpenCut-II-lining-20m"),
    TunnelSegment("OpenCut-III-lining-100.597m", "CD", 100597, 302803, 403400, 800, 1, 4, 12000, 800, "OpenCut-III-lining-100.597m"),
    TunnelSegment("VC-grade-114.6m", "bench", 114600, 403400, 518000, 800, 2, 2, 12000, 1600, "VC-grade-114.6m"),
    TunnelSegment("VD-grade-27m", "bench", 27000, 518000, 545000, 800, 2, 2, 12000, 1600, "VD-grade-27m"),
    TunnelSegment("VC-grade-58.4m", "bench", 58400, 545000, 603400, 800, 2, 2, 12000, 1600, "VC-grade-58.4m"),
    TunnelSegment("IVA-grade-35.6m", "bench", 35600, 603400, 639000, 800, 2, 2, 12000, 1600, "IVA-grade-35.6m"),
    TunnelSegment("EmergencyBay-42m", "CD", 42000, 639000, 681000, 800, 1, 4, 12000, 800, "EmergencyBay-42m"),
    TunnelSegment("IVA-grade-248m", "bench", 248000, 681000, 929000, 800, 2, 2, 12000, 1600, "IVA-grade-248m"),
    TunnelSegment("EmergencyBay-42m", "CD", 42000, 929000, 971000, 800, 1, 4, 12000, 800, "EmergencyBay-42m"),
    TunnelSegment("IVA-grade-98.714m", "bench", 98714, 971000, 1069714, 800, 2, 2, 12000, 1600, "IVA-grade-98.714m"),
    TunnelSegment("Overpass-38m", "bench", 38000, 1069714, 1107714, 800, 2, 2, 12000, 1600, "Overpass-38m"),
    TunnelSegment("IVA-grade-215.286m", "bench", 215286, 1107714, 1323000, 800, 2, 2, 12000, 1600, "IVA-grade-215.286m"),
    TunnelSegment("VA-grade-29m", "bench", 29000, 1323000, 1352000, 800, 2, 2, 12000, 1600, "VA-grade-29m"),
    TunnelSegment("VB-grade-42m", "bench", 42000, 1352000, 1394000, 800, 2, 2, 12000, 1600, "VB-grade-42m"),
    TunnelSegment("CutAndCover12m", "open-cut", 12000, 1394000, 1406000, 12000, 1, 1, 12000, 12000, "CutAndCover12m")
  >>

create_ak_segments ==
  <<
    TunnelSegment("CutAndCover", "open-cut", 17000, 87000, 104000, 17000, 1, 1, 9000, 17000, "CutAndCover"),
    TunnelSegment("Vc-lining", "CD", 30000, 104000, 134000, 800, 1, 4, 9000, 800, "Vc-lining"),
    TunnelSegment("Vb-lining", "bench", 24000, 134000, 158000, 800, 2, 2, 9000, 1600, "Vb-lining"),
    TunnelSegment("IVb-lining", "bench", 37000, 158000, 195000, 800, 2, 2, 9000, 1600, "IVb-lining"),
    TunnelSegment("IVa-lining", "bench", 70000, 195000, 265000, 800, 2, 2, 9000, 1600, "IVa-lining"),
    TunnelSegment("IVb-lining", "bench", 70000, 265000, 335000, 800, 2, 2, 9000, 1600, "IVb-lining"),
    TunnelSegment("IVa-lining", "bench", 35000, 335000, 370000, 800, 2, 2, 9000, 1600, "IVa-lining"),
    TunnelSegment("Vb-lining", "CD", 30500, 370000, 400500, 800, 1, 4, 9000, 800, "Vb-lining"),
    TunnelSegment("Vc-lining", "CD", 10000, 400500, 410500, 800, 1, 4, 9000, 800, "Vc-lining"),
    TunnelSegment("CutAndCover", "open-cut", 15000, 410500, 425500, 15000, 1, 1, 9000, 15000, "CutAndCover")
  >>

create_bk_segments ==
  <<
    TunnelSegment("CutAndCover", "open-cut", 14000, 164000, 178000, 14000, 1, 1, 9000, 14000, "CutAndCover"),
    TunnelSegment("Vc-lining", "CD", 16000, 178000, 194000, 800, 1, 4, 9000, 800, "Vc-lining"),
    TunnelSegment("Vb-lining", "CD", 20000, 194000, 214000, 800, 1, 4, 9000, 800, "Vb-lining"),
    TunnelSegment("IVb-lining", "bench", 30000, 214000, 244000, 800, 2, 2, 9000, 1600, "IVb-lining"),
    TunnelSegment("IVc-lining", "bench", 96000, 244000, 340000, 800, 2, 2, 9000, 1600, "IVc-lining"),
    TunnelSegment("IVa-lining", "bench", 200000, 340000, 540000, 800, 2, 2, 9000, 1600, "IVa-lining"),
    TunnelSegment("IVb-lining", "bench", 30000, 540000, 570000, 800, 2, 2, 9000, 1600, "IVb-lining"),
    TunnelSegment("IVd-lining", "bench", 60000, 570000, 630000, 800, 2, 2, 9000, 1600, "IVd-lining"),
    TunnelSegment("IVa-lining", "bench", 60000, 630000, 690000, 800, 2, 2, 9000, 1600, "IVa-lining"),
    TunnelSegment("Va-lining", "bench", 25000, 690000, 715000, 800, 2, 2, 9000, 1600, "Va-lining"),
    TunnelSegment("Vb-lining", "CD", 25000, 715000, 740000, 800, 1, 4, 9000, 800, "Vb-lining"),
    TunnelSegment("CutAndCover", "open-cut", 15000, 740000, 755000, 15000, 1, 1, 9000, 15000, "CutAndCover")
  >>

create_demo_project ==
  Project("demo-project", Today,
    << Tunnel("ZK", "ZK-left-line", 1162898, 245102, 1408000, "K0+245.102", "K1+408.000", TRUE, 12000, "forward", create_zk_segments),
       Tunnel("YK", "YK-right-line", 1161197, 244803, 1406000, "K0+244.803", "K1+406.000", TRUE, 12000, "forward", create_yk_segments),
       Tunnel("AK", "Ramp-A", 338500, 87000, 425500, "AK0+087", "AK0+425.5", FALSE, 9000, "forward", create_ak_segments),
       Tunnel("BK", "Ramp-B", 591000, 164000, 755000, "BK0+164", "BK0+755.0", FALSE, 9000, "forward", create_bk_segments) >>)

----------------------------------------------------------------------------
(* 6. InspectionCalculator.                                                *)

\* DIVISIONS: the division codes in dict order ...
DivisionCodes == <<"01", "02", "03", "04", "05", "06", "07", "08">>

\* ... and the item codes of each division, in dict order.
DIVISIONS ==
  [d \in Range(DivisionCodes) |->
     CASE d = "01" -> <<"01">>
       [] d = "02" -> <<"01", "02", "03", "04">>
       [] d = "03" -> <<"01", "02", "03">>
       [] d = "04" -> <<"01", "02">>
       [] d = "05" -> <<"01", "02", "03", "04">>
       [] d = "06" -> <<"01", "02">>
       [] d = "07" -> <<"01", "02", "03">>
       [] d = "08" -> <<"01", "02", "03", "04">>]

\* the literal item codes '01' .. '04'
ItemCode(n) == <<"01", "02", "03", "04">>[n]

\* f"{tunnel_id}-{div_code}-{item_code}-{seq:03d}": the code is kept as the
\* tuple of its four components (zero padding does not identify two numbers).
generate_batch_code(tunnel_id, div_code, item_code, seq) ==
  <<tunnel_id, div_code, item_code, seq>>

\* The arguments of one _add_batch call.  src is an auxiliary column that no
\* code reads: the loop indices current at the call (segment ordinal, cycle or
\* ring number, step number; 0 where a loop does not apply) and, filled in by
\* calculate, the tunnel ordinal.
Call(d, i, seq, remark, start, end, seg, cycle, step) ==
  [d |-> d, i |-> i, seq |-> seq, remark |-> remark, start |-> start,
   end |-> end, src |-> [t |-> 0, seg |-> seg, cycle |-> cycle, step |-> step]]

\* _add_batch, first half: the record built for one call.  mileage keeps the
\* two chainages that format_mileage would render; point marks the "K0+000"
\* placeholder.
make_batch(tunnel_name, tunnel_id, c) ==
  LET point == (c.start = 0 /\ c.end = 0)
  IN  [code |-> generate_batch_code(tunnel_id, c.d, c.i, c.seq),
       tunnel |-> tunnel_name, d |-> c.d, i |-> c.i,
       remark |-> c.remark, point |-> point,
       mileage |-> <<c.start, c.end>>,
       length |-> IF point THEN 0 ELSE Abs(c.end - c.start),
       src |-> c.src]

\* add_batches filing every record under every item of its division
add_batches_misfiled(results, tunnel_name, tunnel_id, calls) ==
  LET batches == [k \in 1..Len(calls) |-> make_batch(tunnel_name, tunnel_id, calls[k])]
  IN  [results EXCEPT
         !.divisions = [d \in DOMAIN @ |-> [i \in DOMAIN @[d] |->
                          @[d][i] \o SelectSeq(batches, LAMBDA b : b.d = d)]],
         !.all_batches = @ \o batches]

\* _add_batch, second half, for a whole series of calls: every record is
\* appended, in call order, to the list of its division and item and to
\* all_batches.
add_batches(results, tunnel_name, tunnel_id, calls) ==
  LET batches == [k \in 1..Len(calls) |-> make_batch(tunnel_name, tunnel_id, calls[k])]
  IN  [results EXCEPT
         !.divisions = [d \in DOMAIN @ |-> [i \in DOMAIN @[d] |->
                          @[d][i] \o SelectSeq(batches, LAMBDA b : b.d = d /\ b.i = i)]],
         !.all_batches = @ \o batches]

\* 1. portal and advance support: the single-instance items ...
SingleItems == << <<"02", "01">>, <<"02", "04">>, <<"03", "01">>, <<"03", "02">>, <<"03", "03">> >>

portal_single_calls ==
  [k \in 1..(2 * Len(SingleItems)) |->
     LET it == SingleItems[(k + 1) \div 2]
     IN  IF k % 2 = 1
         THEN Call(it[1], it[2], 1, <<"entry">>, 0, 0, 0, 0, 0)
         ELSE Call(it[1], it[2], 2, <<"exit">>, 0, 0, 0, 0, 0)]

\* portal_multi_calls numbering the exit lots from 3
portal_multi_calls_overlap(ic, sub_items) ==
  [k \in 1..(2 * Len(sub_items)) |->
     LET idx == (k - 1) \div 2
     IN  IF k % 2 = 1
         THEN Call("02", ic, idx + 1, <<"entry", sub_items[idx + 1]>>, 0, 0, 0, 0, 0)
         ELSE Call("02", ic, idx + 3, <<"exit", sub_items[idx + 1]>>, 0, 0, 0, 0, 0)]

\* ... and the two three-part items 02-02 and 02-03.
portal_multi_calls(ic, sub_items) ==
  [k \in 1..(2 * Len(sub_items)) |->
     LET idx == (k - 1) \div 2
     IN  IF k % 2 = 1
         THEN Call("02", ic, idx + 1, <<"entry", sub_items[idx + 1]>>, 0, 0, 0, 0, 0)
         ELSE Call("02", ic, idx + 4, <<"exit", sub_items[idx + 1]>>, 0, 0, 0, 0, 0)]

portal_calls ==
  portal_single_calls
    \o portal_multi_calls("02", <<"anchor", "mesh", "shotcrete">>)
    \o portal_multi_calls("03", <<"formwork", "rebar", "concrete">>)

\* 2. excavation and primary support
\* cycles never below one
cycles_at_least_one(seg) ==
  IF seg.advance_per_cycle > 0
  THEN Max(1, TruncDiv(seg.length, seg.advance_per_cycle)) ELSE 1

cycles(seg) ==
  IF seg.advance_per_cycle > 0 THEN TruncDiv(seg.length, seg.advance_per_cycle) ELSE 0

\* step_names with a third bench
step_names_three_benches(seg) ==
  IF seg.method = "CD"
  THEN <<"upper-left", "upper-right", "lower-left", "lower-right">>
  ELSE <<"upper-bench", "middle-bench", "lower-bench">>

step_names(seg) ==
  IF seg.method = "CD"
  THEN <<"upper-left", "upper-right", "lower-left", "lower-right">>
  ELSE <<"upper-bench", "lower-bench">>

base_start(seg, dir_sign) ==
  IF dir_sign = 1 THEN Min(seg.start_mileage, seg.end_mileage)
                  ELSE Max(seg.start_mileage, seg.end_mileage)

\* start and end of cycle c (c = 0, 1, ...)
cycle_start(seg, c, dir_sign) ==
  base_start(seg, dir_sign) + c * seg.advance_per_cycle * dir_sign

cycle_end(seg, c, dir_sign) ==
  cycle_start(seg, c, dir_sign) + seg.advance_per_cycle * dir_sign

\* seq of step s_idx (0-based) of cycle c
batch_seq(seg, c, s_idx) == c * seg.steps + s_idx + 1

\* the calls of the loop body for the segment at ordinal k: per cycle and per
\* step one excavation lot followed by the four primary-support lots
segment_calls(seg, k, dir_sign) ==
  IF seg.method \notin {"CD", "bench"} THEN <<>>
  ELSE
    LET names == step_names(seg)
        per_cycle == Len(names) * 5
        n == cycles(seg) * per_cycle
        ic_exc == IF seg.method = "CD" THEN "01" ELSE "02"
    IN  IF n <= 0 THEN <<>>
        ELSE [j \in 1..n |->
                LET c == (j - 1) \div per_cycle
                    s_idx == ((j - 1) % per_cycle) \div 5
                    w == (j - 1) % 5
                IN  Call(IF w = 0 THEN "04" ELSE "05",
                         IF w = 0 THEN ic_exc ELSE ItemCode(w),
                         batch_seq(seg, c, s_idx),
                         <<seg.name, names[s_idx + 1]>>,
                         cycle_start(seg, c, dir_sign), cycle_end(seg, c, dir_sign),
                         k, c + 1, s_idx + 1)]

RECURSIVE excavation_calls(_, _, _)
excavation_calls(segments, k, dir_sign) ==
  IF k > Len(segments) THEN <<>>
  ELSE segment_calls(segments[k], k, dir_sign) \o excavation_calls(segments, k + 1, dir_sign)

\* 3. lining, waterproofing and ancillary works
\* rings with the quotient truncated
rings_truncated(tunnel) == TruncDiv(tunnel.total_length, tunnel.trolley_length)

rings(tunnel) == CeilDiv(tunnel.total_length, tunnel.trolley_length)

base_t_start(tunnel, dir_sign) ==
  IF dir_sign = 1 THEN Min(tunnel.start_mileage, tunnel.end_mileage)
                  ELSE Max(tunnel.start_mileage, tunnel.end_mileage)

base_t_end(tunnel, dir_sign) ==
  IF dir_sign = 1 THEN Max(tunnel.start_mileage, tunnel.end_mileage)
                  ELSE Min(tunnel.start_mileage, tunnel.end_mileage)

\* start and end of ring r (r = 0, 1, ...)
ring_start(tunnel, r, dir_sign) ==
  base_t_start(tunnel, dir_sign) + r * tunnel.trolley_length * dir_sign

ring_end(tunnel, r, dir_sign) ==
  IF dir_sign = 1
  THEN Min(ring_start(tunnel, r, dir_sign) + tunnel.trolley_length, base_t_end(tunnel, dir_sign))
  ELSE Max(ring_start(tunnel, r, dir_sign) - tunnel.trolley_length, base_t_end(tunnel, dir_sign))

LiningSubItems == <<"formwork", "rebar", "concrete">>

\* the 13 calls of one ring: 3 x (06-01, 06-02), then 07-01..03, then 08-01..04
lining_calls(tunnel, dir_sign) ==
  IF tunnel.trolley_length > 0 /\ rings(tunnel) > 0
  THEN [j \in 1..(rings(tunnel) * 13) |->
          LET r == (j - 1) \div 13
              w == ((j - 1) % 13) + 1
              idx == (w - 1) \div 2
              start == ring_start(tunnel, r, dir_sign)
              end == ring_end(tunnel, r, dir_sign)
          IN  IF w <= 6
              THEN IF w % 2 = 1
                   THEN Call("06", "01", r * 3 + idx + 1, <<"invert", LiningSubItems[idx + 1]>>, start, end, 0, r + 1, 0)
                   ELSE Call("06", "02", r * 3 + idx + 1, <<"arch-wall", LiningSubItems[idx + 1]>>, start, end, 0, r + 1, 0)
              ELSE IF w <= 9
                   THEN Call("07", ItemCode(w - 6), r + 1, <<"waterproofing">>, start, end, 0, r + 1, 0)
                   ELSE Call("08", ItemCode(w - 9), r + 1, <<"ancillary">>, start, end, 0, r + 1, 0)]
  ELSE <<>>

calculate_single_tunnel(tunnel) ==
  LET dir_sign == IF tunnel.direction = "forward" THEN 1 ELSE -1
      empty == [tunnel_name |-> tunnel.name,
                divisions |-> [d \in DOMAIN DIVISIONS |-> [i \in Range(DIVISIONS[d]) |-> <<>>]],
                all_batches |-> <<>>]
      calls == portal_calls \o excavation_calls(tunnel.segments, 1, dir_sign)
                            \o lining_calls(tunnel, dir_sign)
      results == add_batches(empty, tunnel.name, tunnel.id, calls)
      summary == [d \in DOMAIN DIVISIONS |->
                    SumSeq([k \in 1..Len(DIVISIONS[d]) |-> Len(results.divisions[d][DIVISIONS[d][k]])])]
      total == SumSeq([k \in 1..Len(DivisionCodes) |-> summary[DivisionCodes[k]]])
  IN  [tunnel_name |-> results.tunnel_name, divisions |-> results.divisions,
       summary |-> summary, total |-> total, all_batches |-> results.all_batches]

\* One turn of the loop over project.tunnels; acc holds grand_total,
\* summary_list and all_batches_flat.
calculate_step(acc, tunnel, n) ==
  LET tunnel_res == calculate_single_tunnel(tunnel)
  IN  [grand_total |-> acc.grand_total + tunnel_res.total,
       summary_list |-> Append(acc.summary_list,
                               [tunnel |-> tunnel.name, summary |-> tunnel_res.summary,
                                total |-> tunnel_res.total]),
       all_batches_flat |-> acc.all_batches_flat
                              \o [k \in 1..Len(tunnel_res.all_batches) |->
                                    [tunnel_res.all_batches[k] EXCEPT !.src.t = n]]]

RECURSIVE calculate_loop(_, _, _)
calculate_loop(tunnels, n, acc) ==
  IF n > Len(tunnels) THEN acc
  ELSE calculate_loop(tunnels, n + 1, calculate_step(acc, tunnels[n], n))

\* calculate returns (grand_total, df_sum, df_detail)
calculate(project) ==
  LET r == calculate_loop(project.tunnels, 1,
                          [grand_total |-> 0, summary_list |-> <<>>, all_batches_flat |-> <<>>])
  IN  [computed |-> TRUE, total |-> r.grand_total, df_sum |-> r.summary_list,
       df_detail |-> r.all_batches_flat]

\* The dashboard's first figure.  Chart A has one bar per row of df_sum,
\* as high as the row's total column ...
bar_heights(df_sum) == [t \in DOMAIN df_sum |-> df_sum[t].total]

\* total_series summing the total column as well
total_series_with_total(df_sum) ==
  [k \in 1..(Len(DivisionCodes) + 1) |->
     IF k <= Len(DivisionCodes)
     THEN SumSeq([t \in DOMAIN df_sum |-> df_sum[t].summary[DivisionCodes[k]]])
     ELSE SumSeq([t \in DOMAIN df_sum |-> df_sum[t].total])]

\* ... and Chart B one pie slice per column of df_sum other than the
\* tunnel and the total column: the division's sum over the rows.
total_series(df_sum) ==
  [k \in 1..Len(DivisionCodes) |->
     SumSeq([t \in DOMAIN df_sum |-> df_sum[t].summary[DivisionCodes[k]]])]

\* 'last_result' not yet in st.session_state
NoResult == [computed |-> FALSE, total |-> 0, df_sum |-> <<>>, df_detail |-> <<>>]

----------------------------------------------------------------------------
(* 6a. The section editor of src/tunnel-inspection4.1.py: one tunnel, its  *)
(* range and direction inputs, its section grid and the validation banner. *)
(* A section is kept with the fields that positions and validation read    *)
(* (name, length, method, start and end); the rock grade and the cycle     *)
(* data that apply_changes also stores do not enter either.                *)

Section(name, length, excavation_method) ==
  [name |-> name, length |-> length, excavation_method |-> excavation_method,
   start_mileage |-> 0, end_mileage |-> 0]

\* Tunnel.total_length (a property)
total_length(tunnel) == tunnel.end_mileage - tunnel.start_mileage

\* Tunnel.direction_sign
direction_sign(tunnel) == IF tunnel.excavation_direction = "forward" THEN 1 ELSE -1

\* Tunnel.recalculate_positions: the sections chained from the tunnel's
\* start, upwards for a forward tunnel and downwards for a reverse one
recalculate_positions(tunnel) ==
  LET current(i) == tunnel.start_mileage
                      + direction_sign(tunnel)
                          * SumSeq([j \in 1..(i - 1) |-> tunnel.sections[j].length])
  IN  [tunnel EXCEPT !.sections =
         [i \in DOMAIN tunnel.sections |->
            [tunnel.sections[i] EXCEPT
               !.start_mileage = current(i),
               !.end_mileage = current(i) + direction_sign(tunnel) * tunnel.sections[i].length]]]

\* the issues of Tunnel.validate, in the order they are appended: the first
\* section not at the tunnel's start, the lengths not adding up to the
\* tunnel's length, and for each section that does not start where the one
\* before it ended (the first: at the tunnel's start) a break with its
\* 1-based number; each beyond 0.1 m
Tolerance == 100

FirstStartIssue == [rule |-> "first-start", index |-> 0]
TotalLengthIssue == [rule |-> "total-length", index |-> 0]
BreakIssue(i) == [rule |-> "break", index |-> i]

\* validate with the lengths compared to the end chainage instead of the length
validate_against_end(tunnel) ==
  LET sections == tunnel.sections
      total == SumSeq([i \in DOMAIN sections |-> sections[i].length])
      current(i) == IF i = 1 THEN tunnel.start_mileage ELSE sections[i - 1].end_mileage
      broken == {i \in DOMAIN sections : Abs(sections[i].start_mileage - current(i)) > Tolerance}
      RECURSIVE breaks(_)
      breaks(i) == IF i > Len(sections) THEN <<>>
                   ELSE (IF i \in broken THEN <<BreakIssue(i)>> ELSE <<>>) \o breaks(i + 1)
  IN  IF sections = <<>> THEN <<>>
      ELSE (IF Abs(sections[1].start_mileage - tunnel.start_mileage) > Tolerance
            THEN <<FirstStartIssue>> ELSE <<>>)
           \o (IF Abs(total - tunnel.end_mileage) > Tolerance
               THEN <<TotalLengthIssue>> ELSE <<>>)
           \o breaks(1)

validate(tunnel) ==
  LET sections == tunnel.sections
      total == SumSeq([i \in DOMAIN sections |-> sections[i].length])
      current(i) == IF i = 1 THEN tunnel.start_mileage ELSE sections[i - 1].end_mileage
      broken == {i \in DOMAIN sections : Abs(sections[i].start_mileage - current(i)) > Tolerance}
      RECURSIVE breaks(_)
      breaks(i) == IF i > Len(sections) THEN <<>>
                   ELSE (IF i \in broken THEN <<BreakIssue(i)>> ELSE <<>>) \o breaks(i + 1)
  IN  IF sections = <<>> THEN <<>>
      ELSE (IF Abs(sections[1].start_mileage - tunnel.start_mileage) > Tolerance
            THEN <<FirstStartIssue>> ELSE <<>>)
           \o (IF Abs(total - total_length(tunnel)) > Tolerance
               THEN <<TotalLengthIssue>> ELSE <<>>)
           \o breaks(1)

\* create_default_project: the left-line tunnel ZK, 0 ~ 1615 m, which the
\* session selects on first load
create_default_tunnel ==
  recalculate_positions(
    [tunnel_id |-> "ZK", name |-> "left-line", start_mileage |-> 0, end_mileage |-> 1615000,
     excavation_direction |-> "forward",
     sections |-> << Section("entry-portal", 2000, "portal"),
                     Section("entry-CD", 30000, "CD"),
                     Section("main-bench", 1615000 - 4000 - 30000 - 30000, "bench"),
                     Section("exit-CD", 30000, "CD"),
                     Section("exit-portal", 2000, "portal") >>])

\* A chainage cell of the section grid: "K{km}+{m}" with kilometres
\* int(x / 1000) and metres x % 1000 shown without decimals (every chainage
\* of the model is a whole number of metres).
MileageCell(x) == [km |-> TruncDiv(x, 1000000), m |-> x % 1000000]

\* float(parts[0]) * 1000 + float(parts[1]) of a typed start cell
new_start_m(new_start) == new_start.km * 1000000 + new_start.m

\* get_paragraphs_with_positions: the rows of the grid
get_paragraphs_with_positions(tunnel) ==
  [i \in DOMAIN tunnel.sections |->
     [name |-> tunnel.sections[i].name,
      start |-> MileageCell(tunnel.sections[i].start_mileage),
      end |-> MileageCell(tunnel.sections[i].end_mileage),
      length |-> tunnel.sections[i].length,
      excavation_method |-> tunnel.sections[i].excavation_method]]

\* Tunnel.apply_changes: the sections rebuilt from the rows' names, lengths
\* and methods, then recalculate_positions
apply_changes(tunnel, df) ==
  recalculate_positions(
    [tunnel EXCEPT !.sections =
       [i \in DOMAIN df |-> Section(df[i].name, df[i].length, df[i].excavation_method)]])

\* What a run of the editor leaves: the tunnel, and the banner that the
\* run shows under the grid (no banner without sections).
EditorRun(tunnel) ==
  /\ editor_runs < MaxEditorRuns
  /\ editor_runs' = editor_runs + 1
  /\ editor_tunnel' = tunnel
  /\ editor_issues' = validate(tunnel)
  /\ UNCHANGED <<projects, current_project_index, page, last_result, calc_input, refused, saves>>

\* the sessions of streamlit_app_v12.py leave the editor alone
EditorIdle == UNCHANGED <<editor_tunnel, editor_issues, editor_runs>>

InitEditor ==
  /\ editor_tunnel = create_default_tunnel
  /\ editor_issues = validate(create_default_tunnel)
  /\ editor_runs = 0

\* the start and end number inputs of the sidebar; the end input does not
\* go below the start plus 10 m
SetRange(new_start, new_end) ==
  /\ new_end >= new_start + 10000
  /\ new_start # editor_tunnel.start_mileage \/ new_end # editor_tunnel.end_mileage
  /\ EditorRun(recalculate_positions(
       [editor_tunnel EXCEPT !.start_mileage = new_start, !.end_mileage = new_end]))

\* the direction select box of the sidebar
SetDirection(direction) ==
  /\ direction # editor_tunnel.excavation_direction
  /\ EditorRun(recalculate_positions([editor_tunnel EXCEPT !.excavation_direction = direction]))

\* "reset configuration" button
ResetConfig == EditorRun(create_default_tunnel)

\* The section grid comes back edited.  If the start cell of its first row
\* differs from the one shown, the tunnel's start becomes what the cell
\* spells, the positions are recalculated and the rest of the edit is
\* dropped; otherwise, if anything differs, apply_changes takes the rows.
EditGrid(edited_df) ==
  LET shown == get_paragraphs_with_positions(editor_tunnel)
  IN  /\ editor_tunnel.sections # <<>>
      /\ edited_df # shown
      /\ IF edited_df # <<>> /\ edited_df[1].start # shown[1].start
         THEN EditorRun(recalculate_positions(
                [editor_tunnel EXCEPT !.start_mileage = new_start_m(edited_df[1].start)]))
         ELSE EditorRun(apply_changes(editor_tunnel, edited_df))

\* "auto layout" button
AutoLayout ==
  /\ editor_tunnel.sections # <<>>
  /\ EditorRun(recalculate_positions(editor_tunnel))

----------------------------------------------------------------------------
(* 7. Main program: the session state and the handlers of main().          *)

Init ==
  /\ projects = <<create_demo_project>>
  /\ current_project_index = 0
  /\ page = "config"
  /\ last_result = NoResult
  /\ calc_input = create_demo_project
  /\ refused = "none"
  /\ saves = 0
  /\ InitEditor

\* current_project as main() binds it at the top of a script run
current_project == projects[current_project_index + 1]

\* The page section of one script run for the project proj bound at its
\* top: the calculation page and the dashboard both run the calculator and
\* store its result; the other two pages leave the session state alone.
PageBody(pg, proj) ==
  /\ EditorIdle
  /\ IF pg \in {"calc", "dashboard"}
     THEN /\ last_result' = calculate(proj)
          /\ calc_input' = proj
     ELSE UNCHANGED <<last_result, calc_input>>

Pages == {"config", "calc", "dashboard", "reference"}

\* GoToPage with a calculator that writes every segment's length back as
\* end_mileage - start_mileage while it runs
GoToPage_recomputing_lengths(pg) ==
  /\ pg # page
  /\ page' = pg
  /\ refused' = "none"
  /\ projects' = IF pg \in {"calc", "dashboard"}
                 THEN LET tunnels == current_project.tunnels
                      IN  [projects EXCEPT ![current_project_index + 1].tunnels =
                             [t \in DOMAIN tunnels |->
                                [tunnels[t] EXCEPT !.segments =
                                   [k \in DOMAIN tunnels[t].segments |->
                                      LET seg == tunnels[t].segments[k]
                                      IN  [seg EXCEPT !.length = seg.end_mileage - seg.start_mileage]]]]]
                 ELSE projects
  /\ UNCHANGED <<current_project_index, saves>>
  /\ PageBody(pg, current_project)

\* The sidebar radio is moved to another page.
GoToPage(pg) ==
  /\ pg # page
  /\ page' = pg
  /\ refused' = "none"
  /\ UNCHANGED <<projects, current_project_index, saves>>
  /\ PageBody(pg, current_project)

\* Another project is picked in the sidebar select box.  The run that takes
\* the pick bound current_project before the select box was read, so its
\* page section still works on the project shown before.
SelectProject(selected_idx) ==
  /\ selected_idx \in 0..(Len(projects) - 1)
  /\ selected_idx # current_project_index
  /\ current_project_index' = selected_idx
  /\ refused' = "none"
  /\ UNCHANGED <<projects, page, saves>>
  /\ PageBody(page, current_project)

\* A new, different name is typed into the rename box.
RenameProject(new_proj_name) ==
  /\ new_proj_name # ""
  /\ new_proj_name # current_project.name
  /\ projects' = [projects EXCEPT ![current_project_index + 1].name = new_proj_name]
  /\ refused' = "none"
  /\ UNCHANGED <<current_project_index, page, saves>>
  /\ PageBody(page, projects'[current_project_index + 1])

\* the segment and the tunnel a new project starts with
default_seg(name) ==
  TunnelSegment(name, "bench", 100000, 0, 100000, 800, 2, 2, 12000, 1600, "composite")

default_tunnel ==
  Tunnel("T1", "tunnel-one", 100000, 0, 100000, "K0+000", "K0+100", TRUE, 12000, "forward",
         <<default_seg("first-section")>>)

\* "new project" button
NewProject ==
  /\ Len(projects) < MaxProjects
  /\ projects' = Append(projects,
                         Project("new-project_" \o ToString(Len(projects) + 1), Today,
                                 <<default_tunnel>>))
  /\ current_project_index' = Len(projects') - 1
  /\ refused' = "none"
  /\ UNCHANGED <<page, saves>>
  /\ PageBody(page, projects'[current_project_index' + 1])

\* DeleteProject without the reset of the index to the list's first entry
DeleteProject_keeping_index ==
  IF Len(projects) > 1
  THEN /\ projects' = RemoveAt(projects, current_project_index + 1)
       /\ current_project_index' = current_project_index
       /\ refused' = "none"
       /\ UNCHANGED <<page, saves>>
       /\ PageBody(page, projects'[1])
  ELSE /\ refused' = "project"
       /\ UNCHANGED <<projects, current_project_index, page, saves>>
       /\ PageBody(page, current_project)

\* DeleteProject without the test of the list's length
DeleteProject_unguarded ==
  /\ projects' = RemoveAt(projects, current_project_index + 1)
  /\ current_project_index' = 0
  /\ refused' = "none"
  /\ UNCHANGED <<page, saves>>
  /\ PageBody(page, projects'[1])

\* "delete project" button: the project picked in the select box is removed
\* unless it is the only one; then the click changes nothing.
DeleteProject ==
  IF Len(projects) > 1
  THEN /\ projects' = RemoveAt(projects, current_project_index + 1)
       /\ current_project_index' = 0
       /\ refused' = "none"
       /\ UNCHANGED <<page, saves>>
       /\ PageBody(page, projects'[1])
  ELSE /\ refused' = "project"
       /\ UNCHANGED <<projects, current_project_index, page, saves>>
       /\ PageBody(page, current_project)

\* "confirm import" button for an uploaded file
ImportProject(doc) ==
  /\ Len(projects) < MaxProjects
  /\ refused' = IF import_project_from_json(doc) = None THEN "import" ELSE "none"
  /\ UNCHANGED <<page, saves>>
  /\ LET imported_proj == import_project_from_json(doc)
     IN  IF imported_proj # None
         THEN /\ projects' = projects \o imported_proj
              /\ current_project_index' = Len(projects') - 1
              /\ PageBody(page, projects'[current_project_index' + 1])
         ELSE /\ UNCHANGED <<projects, current_project_index>>
              /\ PageBody(page, current_project)

\* The tunnel handlers work on the tunnel list of the current project.
SetTunnels(tunnels) ==
  /\ projects' = [projects EXCEPT ![current_project_index + 1].tunnels = tunnels]
  /\ UNCHANGED <<current_project_index, page, last_result, calc_input>>
  /\ EditorIdle

\* "add the first tunnel" button, shown when the project has no tunnel
AddFirstTunnel ==
  /\ page = "config"
  /\ current_project.tunnels = <<>>
  /\ refused' = "none"
  /\ UNCHANGED saves
  /\ SetTunnels(<< Tunnel("NEW", "new-tunnel", 100000, 0, 100000, "K0", "K1", TRUE, 12000,
                           "forward", <<default_seg("first-section")>>) >>)

\* "add tunnel" button
AddTunnel ==
  /\ page = "config"
  /\ current_project.tunnels # <<>>
  /\ Len(current_project.tunnels) < MaxTunnels
  /\ refused' = "none"
  /\ UNCHANGED saves
  /\ SetTunnels(Append(current_project.tunnels,
                        Tunnel("T" \o ToString(Len(current_project.tunnels) + 1), "new-tunnel",
                               100000, 0, 100000, "K0", "K1", TRUE, 12000, "forward",
                               <<default_seg("new-section")>>)))

\* next(t for t in current_project.tunnels if t.name == selected_tunnel_name):
\* the position of the first tunnel of that name
target_tunnel(selected_tunnel_name) ==
  CHOOSE k \in DOMAIN current_project.tunnels :
    /\ current_project.tunnels[k].name = selected_tunnel_name
    /\ \A j \in 1..(k - 1) : current_project.tunnels[j].name # selected_tunnel_name

\* list.remove(x): the list without its first element equal to x
ListRemove(list, x) ==
  RemoveAt(list, CHOOSE k \in DOMAIN list : list[k] = x /\ \A j \in 1..(k - 1) : list[j] # x)

\* DeleteTunnel without the test of the list's length
DeleteTunnel_unguarded(selected_tunnel_name) ==
  /\ page = "config"
  /\ \E k \in DOMAIN current_project.tunnels :
       current_project.tunnels[k].name = selected_tunnel_name
  /\ UNCHANGED saves
  /\ refused' = "none"
  /\ SetTunnels(ListRemove(current_project.tunnels,
                            current_project.tunnels[target_tunnel(selected_tunnel_name)]))

\* "delete the current tunnel" button: the tunnel picked in the select box is
\* removed unless it is the only one; then the click changes nothing.
DeleteTunnel(selected_tunnel_name) ==
  /\ page = "config"
  /\ \E k \in DOMAIN current_project.tunnels :
       current_project.tunnels[k].name = selected_tunnel_name
  /\ UNCHANGED saves
  /\ IF Len(current_project.tunnels) > 1
     THEN /\ refused' = "none"
          /\ SetTunnels(ListRemove(current_project.tunnels,
                                    current_project.tunnels[target_tunnel(selected_tunnel_name)]))
     ELSE /\ refused' = "tunnel"
          /\ UNCHANGED <<projects, current_project_index, page, last_result, calc_input>>
          /\ EditorIdle

\* "save basic info" form of the tunnel picked in the select box
SaveBasicInfo(selected_tunnel_name, new_id, new_name, new_dir, new_trolley) ==
  /\ page = "config"
  /\ \E k \in DOMAIN current_project.tunnels :
       current_project.tunnels[k].name = selected_tunnel_name
  /\ saves < MaxSaves
  /\ saves' = saves + 1
  /\ refused' = "none"
  /\ SetTunnels([current_project.tunnels EXCEPT
                   ![target_tunnel(selected_tunnel_name)] =
                      [@ EXCEPT !.id = new_id, !.name = new_name,
                                !.direction = new_dir, !.trolley_length = new_trolley]])

\* The segment grid as it is shown for a tunnel: one row per segment, a row
\* being the record of its filled cells (an empty cell is a missing field).
df_seg(tunnel) ==
  [k \in DOMAIN tunnel.segments |->
     LET seg == tunnel.segments[k]
     IN  [name |-> seg.name, method |-> seg.method,
          start |-> format_mileage(seg.start_mileage), length |-> seg.length,
          end |-> format_mileage(seg.end_mileage), lining |-> seg.lining_type,
          frames |-> seg.frames_per_ring, spacing |-> seg.frame_spacing,
          advance |-> seg.advance_per_cycle, steps |-> seg.steps]]

\* get_val(row.get(column), default)
get_val(row, column, default) == IF column \in DOMAIN row THEN row[column] ELSE default

\* the chainage at which row idx starts: the first row's own text, or the
\* tunnel's start if it has none; every later row starts where the row
\* before it ended
RECURSIVE row_start(_, _, _, _)
row_length(row) ==
  IF get_val(row, "length", 100000) <= 1 THEN 100000 ELSE get_val(row, "length", 100000)

\* row_start adding every length upwards, whatever the direction
row_start_upwards(tunnel, edited_df, idx, dir_sign) ==
  LET start_str == get_val(edited_df[1], "start", EmptyText)
      first == IF start_str # EmptyText THEN parse_mileage(start_str) ELSE tunnel.start_mileage
  IN  first + SumSeq([j \in 1..(idx - 1) |-> row_length(edited_df[j])])

row_start(tunnel, edited_df, idx, dir_sign) ==
  IF idx = 1
  THEN LET start_str == get_val(edited_df[1], "start", EmptyText)
       IN  IF start_str # EmptyText THEN parse_mileage(start_str) ELSE tunnel.start_mileage
  ELSE row_start(tunnel, edited_df, idx - 1, dir_sign)
         + row_length(edited_df[idx - 1]) * dir_sign

\* row_segment keeping the step count shown in the row
row_segment_keeps_steps(tunnel, edited_df, idx, dir_sign) ==
  LET row == edited_df[idx]
      start_m == row_start(tunnel, edited_df, idx, dir_sign)
      length == row_length(row)
      method == get_val(row, "method", "bench")
      frames == get_val(row, "frames", 2)
      spacing == get_val(row, "spacing", 800)
      advance == IF frames > 0 /\ spacing > 0 THEN frames * spacing ELSE 1600
      steps == get_val(row, "steps", 2)
      default_name == "section_" \o ToString(idx)
      name == IF get_val(row, "name", default_name) \in {"", "nan"}
              THEN default_name ELSE get_val(row, "name", default_name)
  IN  TunnelSegment(name, method, length, start_m, start_m + length * dir_sign,
                    spacing, frames, steps, tunnel.trolley_length, advance,
                    get_val(row, "lining", ""))

\* the TunnelSegment built from row idx
row_segment(tunnel, edited_df, idx, dir_sign) ==
  LET row == edited_df[idx]
      start_m == row_start(tunnel, edited_df, idx, dir_sign)
      length == row_length(row)
      method == get_val(row, "method", "bench")
      frames == get_val(row, "frames", 2)
      spacing == get_val(row, "spacing", 800)
      advance == IF frames > 0 /\ spacing > 0 THEN frames * spacing ELSE 1600
      steps == CASE method = "CD" -> 4
                 [] method = "bench" -> 2
                 [] method = "open-cut" -> 1
                 [] OTHER -> 2
      default_name == "section_" \o ToString(idx)
      name == IF get_val(row, "name", default_name) \in {"", "nan"}
              THEN default_name ELSE get_val(row, "name", default_name)
  IN  TunnelSegment(name, method, length, start_m, start_m + length * dir_sign,
                    spacing, frames, steps, tunnel.trolley_length, advance,
                    get_val(row, "lining", ""))

\* new_segs.sort(key=lambda x: min(x.start_mileage, x.end_mileage)): a stable
\* sort; Rank is the place an element is moved to
sort_key(seg) == Min(seg.start_mileage, seg.end_mileage)

Rank(segs, j) ==
  1 + Cardinality({i \in DOMAIN segs : sort_key(segs[i]) < sort_key(segs[j])})
    + Cardinality({i \in 1..(j - 1) : sort_key(segs[i]) = sort_key(segs[j])})

sort_segments(segs) ==
  [r \in DOMAIN segs |-> segs[CHOOSE j \in DOMAIN segs : Rank(segs, j) = r]]

\* the tunnel after "save segments" of the edited grid
save_segments(tunnel, edited_df) ==
  LET dir_sign == IF tunnel.direction = "forward" THEN 1 ELSE -1
      new_segs == sort_segments([idx \in DOMAIN edited_df |->
                                   row_segment(tunnel, edited_df, idx, dir_sign)])
      n == Len(new_segs)
  IN  IF new_segs = <<>>
      THEN [tunnel EXCEPT !.segments = new_segs]
      ELSE [tunnel EXCEPT
              !.segments = new_segs,
              !.start_mileage = IF dir_sign = 1 THEN new_segs[1].start_mileage
                                                ELSE new_segs[n].end_mileage,
              !.end_mileage = IF dir_sign = 1 THEN new_segs[n].end_mileage
                                              ELSE new_segs[1].start_mileage,
              !.total_length = SumSeq([k \in 1..n |-> new_segs[k].length])]

\* "save segments" button for the grid of the tunnel picked in the select box
SaveSegments(selected_tunnel_name, edited_df) ==
  /\ page = "config"
  /\ \E k \in DOMAIN current_project.tunnels :
       current_project.tunnels[k].name = selected_tunnel_name
  /\ saves < MaxSaves
  /\ saves' = saves + 1
  /\ refused' = "none"
  /\ SetTunnels([current_project.tunnels EXCEPT
                   ![target_tunnel(selected_tunnel_name)] = save_segments(@, edited_df)])

----------------------------------------------------------------------------
(* Configuration files a user may import: the shapes that an export writes *)
(* (every field present) and hand-written ones that leave defaulted fields *)
(* out.                                                                    *)

\* the parameters of a segment other than its name and chainages
SegmentKinds ==
  { [method |-> "bench", length |-> 20000, frame_spacing |-> 800, frames_per_ring |-> 2,
     steps |-> 2, trolley_length |-> 12000, advance_per_cycle |-> 1600, lining_type |-> "composite"],
    [method |-> "CD", length |-> 8000, frame_spacing |-> 400, frames_per_ring |-> 2,
     steps |-> 4, trolley_length |-> 12000, advance_per_cycle |-> 800, lining_type |-> "composite"],
    [method |-> "CD", length |-> 8200, advance_per_cycle |-> 800],
    [method |-> "open-cut", length |-> 15000, frame_spacing |-> 800, frames_per_ring |-> 2,
     steps |-> 1, trolley_length |-> 12000, advance_per_cycle |-> 1600, lining_type |-> "open-cut"],
    [method |-> "bench", length |-> 1000, frame_spacing |-> 800, frames_per_ring |-> 2,
     steps |-> 2, trolley_length |-> 12000, advance_per_cycle |-> 1600, lining_type |-> "composite"],
    [method |-> "portal", length |-> 5000, frame_spacing |-> 800, frames_per_ring |-> 2,
     steps |-> 2, trolley_length |-> 12000, advance_per_cycle |-> 1600, lining_type |-> "portal"] }

KindLists == UNION {[1..n -> SegmentKinds] : n \in 0..MaxSegments}

TrolleyChoices == {12000, 9000, 0}

Directions == {"forward", "reverse"}

\* the segments of a file: kinds chained from the chainage start
RECURSIVE SegmentData(_, _, _, _)
SegmentData(kinds, k, start, dir_sign) ==
  IF k > Len(kinds) THEN <<>>
  ELSE LET end == start + kinds[k].length * dir_sign
       IN  << [name |-> "S" \o ToString(k), start_mileage |-> start, end_mileage |-> end] @@ kinds[k] >>
             \o SegmentData(kinds, k + 1, end, dir_sign)

TunnelData(id, kinds, direction, trolley, start) ==
  LET dir_sign == IF direction = "forward" THEN 1 ELSE -1
      total == IF kinds = <<>> THEN 30000
               ELSE SumSeq([k \in 1..Len(kinds) |-> kinds[k].length])
  IN  [id |-> id, name |-> "tunnel-" \o id, total_length |-> total,
       start_mileage |-> start, end_mileage |-> start + total * dir_sign,
       start_label |-> "K-start", end_label |-> "K-end", is_main_line |-> TRUE,
       trolley_length |-> trolley, direction |-> direction,
       segments |-> SegmentData(kinds, 1, start, dir_sign)]

\* segments a hand-written file may hold: a length or an advance that is
\* zero or negative
DegenerateKinds ==
  { [method |-> "bench", length |-> 0, advance_per_cycle |-> 1600, steps |-> 2],
    [method |-> "bench", length |-> -5000, advance_per_cycle |-> 1600, steps |-> 2],
    [method |-> "CD", length |-> 8000, advance_per_cycle |-> 0, steps |-> 4],
    [method |-> "bench", length |-> 20000, advance_per_cycle |-> -1600, steps |-> 2] }

\* files whose tunnel holds such a segment, alone or after an ordinary one
DegenerateDocs ==
  {JsonDoc([name |-> "degenerate", created_at |-> Today,
            tunnels |-> <<TunnelData("T1", kinds, d, 12000, 100000)>>]) :
     kinds \in {<<dk>> : dk \in DegenerateKinds}
               \cup {<<sk, dk>> : sk \in {k \in SegmentKinds : k.length = 20000},
                                  dk \in DegenerateKinds},
     d \in Directions}

\* files holding one tunnel, files holding two, and a file holding none
CalcDocs ==
  {JsonDoc([name |-> "imported", created_at |-> Today,
            tunnels |-> <<TunnelData("T1", kinds, d, tr, 100000)>>]) :
     kinds \in KindLists, d \in Directions, tr \in TrolleyChoices}
  \cup
  {JsonDoc([name |-> "imported", created_at |-> Today,
            tunnels |-> <<TunnelData("T1", kinds, "forward", 12000, 100000),
                          TunnelData("T2", kinds, "reverse", 9000, 50000)>>]) :
     kinds \in KindLists}
  \cup
  {JsonDoc([name |-> "imported", tunnels |-> <<>>])}
  \cup DegenerateDocs

\* files of the project list's session: a hand-written file whose tunnel
\* and segment leave out every field with a default, a file without
\* tunnels, a file without a name, and a file that is not JSON
ShellDocs ==
  { JsonDoc([name |-> "minimal",
             tunnels |-> << [id |-> "M1", name |-> "tunnel-M1", total_length |-> 50000,
                             start_mileage |-> 0, end_mileage |-> 50000,
                             start_label |-> "K0", end_label |-> "K0+050",
                             is_main_line |-> FALSE,
                             segments |-> << [name |-> "S1", method |-> "CD", length |-> 50000,
                                              start_mileage |-> 0, end_mileage |-> 50000] >>] >>]),
    JsonDoc([name |-> "no-tunnels", tunnels |-> <<>>]),
    JsonDoc([created_at |-> Today,
             tunnels |-> << [id |-> "M1", name |-> "tunnel-M1", total_length |-> 50000,
                             start_mileage |-> 0, end_mileage |-> 50000,
                             start_label |-> "K0", end_label |-> "K0+050",
                             is_main_line |-> FALSE] >>]),
    MalformedDoc }

RenameChoices == {"renamed"}

\* The calculator's session: the list holds the demo project, as on first
\* load, or one imported project (import a file, then delete the demo
\* project).
InitCalc ==
  /\ \/ projects = <<create_demo_project>>
     \/ \E doc \in CalcDocs :
           /\ import_project_from_json(doc) # None
           /\ projects = import_project_from_json(doc)
  /\ current_project_index = 0
  /\ page = "config"
  /\ last_result = NoResult
  /\ calc_input = projects[1]
  /\ refused = "none"
  /\ saves = 0
  /\ InitEditor

NextCalc == \E pg \in Pages : GoToPage(pg)

SpecCalc == InitCalc /\ [][NextCalc]_vars

\* What a user does to the grid before saving it: nothing, a new length or
\* method or a cleared length in one row, another start text in one row, a
\* row deleted, or an empty row added at the bottom.
GridLengths == {12000}
GridMethods == {"CD", "bench"}
GridStarts == {KText(FALSE, 0, 245102)}

GridEdits(df) ==
  {df}
  \cup {[df EXCEPT ![r] = [length |-> l] @@ @] : r \in DOMAIN df, l \in GridLengths}
  \cup {[df EXCEPT ![r] = [c \in DOMAIN @ \ {"length"} |-> @[c]]] : r \in DOMAIN df}
  \cup {[df EXCEPT ![r] = [method |-> m] @@ @] : r \in DOMAIN df, m \in GridMethods}
  \cup {[df EXCEPT ![r] = [start |-> t] @@ @] : r \in DOMAIN df, t \in GridStarts}
  \cup {RemoveAt(df, r) : r \in DOMAIN df}
  \cup (IF Len(df) < MaxSegments THEN {Append(df, <<>>)} ELSE {})

\* three bench segments of 30 m, 700 m and 30 m
SurveyKinds ==
  [k \in 1..3 |->
     [method |-> "bench", length |-> IF k = 2 THEN 700000 ELSE 30000, frame_spacing |-> 800,
      frames_per_ring |-> 2, steps |-> 2, trolley_length |-> 12000,
      advance_per_cycle |-> 1600, lining_type |-> "composite"]]

\* single-tunnel files of CD and bench segments with a 12 m trolley, and a
\* file with a forward tunnel of the three segments above
EditDocs ==
  {JsonDoc([name |-> "imported", created_at |-> Today,
            tunnels |-> <<TunnelData("T1", kinds, d, 12000, 100000)>>]) :
     kinds \in {ks \in KindLists :
                  \A k \in DOMAIN ks : /\ ks[k].method \in {"CD", "bench"}
                                       /\ ks[k].length >= 8000},
     d \in Directions}
  \cup
  {JsonDoc([name |-> "survey", created_at |-> Today,
            tunnels |-> <<TunnelData("T1", SurveyKinds, "forward", 12000, 100000)>>])}

\* The editing session: one imported project, its tunnel's basic-info form
\* and segment grid, and the calculation page.
InitEdit ==
  /\ \E doc \in EditDocs :
       /\ import_project_from_json(doc) # None
       /\ projects = import_project_from_json(doc)
  /\ current_project_index = 0
  /\ page = "config"
  /\ last_result = NoResult
  /\ calc_input = projects[1]
  /\ refused = "none"
  /\ saves = 0
  /\ InitEditor

NextEdit ==
  \/ \E pg \in {"config", "calc"} : GoToPage(pg)
  \/ \E k \in DOMAIN current_project.tunnels :
       \E new_dir \in Directions, new_trolley \in {9000, 12000} :
         SaveBasicInfo(current_project.tunnels[k].name, current_project.tunnels[k].id,
                       current_project.tunnels[k].name, new_dir, new_trolley)
  \/ \E k \in DOMAIN current_project.tunnels :
       \E edited_df \in GridEdits(df_seg(current_project.tunnels[k])) :
         SaveSegments(current_project.tunnels[k].name, edited_df)

SpecEdit == InitEdit /\ [][NextEdit]_vars

\* The segment grid's session: an imported project whose grid is edited and
\* saved.
NextGrid ==
  /\ saves < MaxGridSaves
  /\ \E k \in DOMAIN current_project.tunnels :
       \E edited_df \in GridEdits(df_seg(current_project.tunnels[k])) :
         SaveSegments(current_project.tunnels[k].name, edited_df)

SpecGrid == InitEdit /\ [][NextGrid]_vars

\* The project list's session: the sidebar handlers, on the configuration
\* and reference pages.
Next ==
  \/ \E pg \in {"config", "reference"} : GoToPage(pg)
  \/ \E selected_idx \in 0..(MaxProjects - 1) : SelectProject(selected_idx)
  \/ \E new_proj_name \in RenameChoices : RenameProject(new_proj_name)
  \/ NewProject
  \/ DeleteProject
  \/ \E doc \in ShellDocs : ImportProject(doc)

Spec == Init /\ [][Next]_vars

\* The tunnel list's session: the tunnel handlers of the configuration page,
\* working on the demo project and on each project as it is imported.
NextTunnels ==
  \/ \E doc \in ShellDocs : ImportProject(doc)
  \/ AddFirstTunnel
  \/ AddTunnel
  \/ \E k \in DOMAIN current_project.tunnels : DeleteTunnel(current_project.tunnels[k].name)

SpecTunnels == Init /\ [][NextTunnels]_vars

\* The whole sidebar's session: the project handlers on every page, the
\* calculation page and the dashboard included.  The list holds one small
\* project at first (a file imported, then the demo project deleted).
InitSession ==
  /\ \E doc \in ShellDocs :
       /\ import_project_from_json(doc) # None
       /\ import_project_from_json(doc)[1].tunnels # <<>>
       /\ projects = import_project_from_json(doc)
  /\ current_project_index = 0
  /\ page = "config"
  /\ last_result = NoResult
  /\ calc_input = projects[1]
  /\ refused = "none"
  /\ saves = 0
  /\ InitEditor

NextSession ==
  \/ \E pg \in Pages : GoToPage(pg)
  \/ \E selected_idx \in 0..(MaxProjects - 1) : SelectProject(selected_idx)
  \/ NewProject
  \/ DeleteProject
  \/ \E doc \in ShellDocs : ImportProject(doc)

SpecSession == InitSession /\ [][NextSession]_vars

\* What a user does to the section grid of the 4.1 editor in one step:
\* another length or another start text in one row, or a row deleted.
EditorLengths == {40000}
EditorStarts == {MileageCell(10000), MileageCell(500000)}

EditorEdits(df) ==
  {[df EXCEPT ![r].length = l] : r \in DOMAIN df, l \in EditorLengths}
  \cup {[df EXCEPT ![r].start = t] : r \in DOMAIN df, t \in EditorStarts}
  \cup {RemoveAt(df, r) : r \in DOMAIN df}

\* the ranges typed into the sidebar
EditorRanges == {<<0, 1615000>>, <<0, 1615050>>, <<0, 1653000>>, <<10000, 1615000>>}

\* The section editor's session (tunnel-inspection4.1.py).
NextEditor ==
  \/ \E r \in EditorRanges : SetRange(r[1], r[2])
  \/ \E direction \in Directions : SetDirection(direction)
  \/ ResetConfig
  \/ \E edited_df \in EditorEdits(get_paragraphs_with_positions(editor_tunnel)) :
       EditGrid(edited_df)
  \/ AutoLayout

SpecEditor == Init /\ [][NextEditor]_vars

----------------------------------------------------------------------------
(* Properties of a computed result.  calc_input is the project the stored  *)
(* result was computed from; the src column of a detail row names the      *)
(* tunnel, segment, cycle (or ring) and step that produced it.             *)

Computed == last_result.computed

\* detail rows of tunnel t, and of its segment k, in generation order
TunnelRows(t) == SelectSeq(last_result.df_detail, LAMBDA b : b.src.t = t)
SegmentRows(t, k) == SelectSeq(last_result.df_detail, LAMBDA b : b.src.t = t /\ b.src.seg = k)
\* detail rows of the ring divisions 06, 07 and 08 of tunnel t
RingRows(t) == SelectSeq(last_result.df_detail, LAMBDA b : b.src.t = t /\ b.d \in {"06", "07", "08"})

CycleNumbers(rows) == {rows[j].src.cycle : j \in DOMAIN rows}

\* the sequence number of a lot: the last component of its code
SeqOf(b) == b.code[4]

\* a segment that is not a portal one (portal and open-cut work is handled
\* by the fixed-count rule)
NonPortal(seg) == seg.method \notin {"portal", "open-cut"}

\* chainage at which travel enters and leaves a stretch from a to b
TravelStart(a, b, direction) == IF direction = "forward" THEN Min(a, b) ELSE Max(a, b)
TravelEnd(a, b, direction) == IF direction = "forward" THEN Max(a, b) ELSE Min(a, b)

\* C1: for every non-portal segment with positive length and positive
\* advance the calculator generates ceil(length / advance) excavation cycles
\* (182.908 m at 1.6 m: 115 cycles; 33 m at 0.8 m: 42 cycles).
C1_CycleCountIsCeiling ==
  Computed =>
    \A t \in DOMAIN calc_input.tunnels :
      \A k \in DOMAIN calc_input.tunnels[t].segments :
        LET seg == calc_input.tunnels[t].segments[k]
        IN  (NonPortal(seg) /\ seg.length > 0 /\ seg.advance_per_cycle > 0)
              => Cardinality(CycleNumbers(SegmentRows(t, k)))
                   = CeilDiv(seg.length, seg.advance_per_cycle)

\* C1, the case the code produces instead: the bench segment of 182.908 m at
\* 1.6 m is given 114 cycles and the CD segment of 33 m at 0.8 m 41 cycles.
C1_FloorCase ==
  /\ Computed
  /\ \E t \in DOMAIN calc_input.tunnels :
       /\ \E k \in DOMAIN calc_input.tunnels[t].segments :
            LET seg == calc_input.tunnels[t].segments[k]
            IN  /\ seg.method = "bench" /\ seg.length = 182908 /\ seg.advance_per_cycle = 1600
                /\ Cardinality(CycleNumbers(SegmentRows(t, k))) = 114
       /\ \E k \in DOMAIN calc_input.tunnels[t].segments :
            LET seg == calc_input.tunnels[t].segments[k]
            IN  /\ seg.method = "CD" /\ seg.length = 33000 /\ seg.advance_per_cycle = 800
                /\ Cardinality(CycleNumbers(SegmentRows(t, k))) = 41

\* C2: the cycle ranges of every non-portal segment tile it: the first
\* starts at the segment's start, each later one starts where the previous
\* one ended, each advances in the travel direction by at most the advance,
\* and the last ends exactly at the segment's end.
C2_CyclesTileSegment ==
  Computed =>
    \A t \in DOMAIN calc_input.tunnels :
      \A k \in DOMAIN calc_input.tunnels[t].segments :
        LET tunnel == calc_input.tunnels[t]
            seg == tunnel.segments[k]
            dir_sign == IF tunnel.direction = "forward" THEN 1 ELSE -1
            rows == SegmentRows(t, k)
        IN  (NonPortal(seg) /\ seg.length > 0 /\ seg.advance_per_cycle > 0) =>
              /\ rows # <<>>
              /\ rows[1].mileage[1] = TravelStart(seg.start_mileage, seg.end_mileage, tunnel.direction)
              /\ rows[Len(rows)].mileage[2] = TravelEnd(seg.start_mileage, seg.end_mileage, tunnel.direction)
              /\ \A j \in DOMAIN rows :
                   LET step == (rows[j].mileage[2] - rows[j].mileage[1]) * dir_sign
                   IN  step > 0 /\ step <= seg.advance_per_cycle
              /\ \A j \in 1..(Len(rows) - 1) :
                   IF rows[j + 1].src.cycle = rows[j].src.cycle
                   THEN rows[j + 1].mileage = rows[j].mileage
                   ELSE rows[j + 1].mileage[1] = rows[j].mileage[2]

\* C2, the case the code produces instead: the cycles of the 33 m CD segment
\* stop 0.2 m short of its end.
C2_TailUncovered ==
  /\ Computed
  /\ \E t \in DOMAIN calc_input.tunnels :
       \E k \in DOMAIN calc_input.tunnels[t].segments :
         LET seg == calc_input.tunnels[t].segments[k]
             rows == SegmentRows(t, k)
         IN  /\ seg.method = "CD" /\ seg.length = 33000 /\ seg.advance_per_cycle = 800
             /\ calc_input.tunnels[t].direction = "forward"
             /\ rows # <<>>
             /\ rows[Len(rows)].mileage[2] = seg.end_mileage - 200

\* C3: within one segment the lots of (cycle c, step s) carry the sequence
\* number (c - 1) * steps_per_cycle + s, and these numbers strictly increase
\* in generation order, hence differ between any two (cycle, step) pairs.
C3_SequenceNumbers ==
  Computed =>
    \A t \in DOMAIN calc_input.tunnels :
      \A k \in DOMAIN calc_input.tunnels[t].segments :
        LET seg == calc_input.tunnels[t].segments[k]
            rows == SegmentRows(t, k)
        IN  /\ \A j \in DOMAIN rows :
                 SeqOf(rows[j]) = (rows[j].src.cycle - 1) * seg.steps + rows[j].src.step
            /\ \A j \in 1..(Len(rows) - 1) :
                 IF rows[j + 1].src.cycle = rows[j].src.cycle /\ rows[j + 1].src.step = rows[j].src.step
                 THEN SeqOf(rows[j + 1]) = SeqOf(rows[j])
                 ELSE SeqOf(rows[j + 1]) > SeqOf(rows[j])

\* C3, the case the code produces instead: an imported CD segment whose file
\* does not state steps (the field defaults to 2) numbers the four steps of
\* cycle 1 as 1..4 and the first step of cycle 2 as 3.
C3_Collision ==
  /\ Computed
  /\ \E t \in DOMAIN calc_input.tunnels :
       \E k \in DOMAIN calc_input.tunnels[t].segments :
         LET seg == calc_input.tunnels[t].segments[k]
             rows == SegmentRows(t, k)
         IN  /\ seg.method = "CD" /\ seg.steps = 2
             /\ \E i, j \in DOMAIN rows :
                  /\ rows[i].src.cycle = 1 /\ rows[i].src.step = 3
                  /\ rows[j].src.cycle = 2 /\ rows[j].src.step = 1
                  /\ SeqOf(rows[i]) = SeqOf(rows[j])
                  /\ rows[i].code = rows[j].code

\* C4: in every computed result the division subtotals of a tunnel add up
\* to the tunnel's total, which is the number of lot records generated for
\* that tunnel; the tunnels' totals add up to the project total, which is
\* the number of rows of the detail table.
C4_TotalsAgree ==
  Computed =>
    /\ Len(last_result.df_sum) = Len(calc_input.tunnels)
    /\ \A t \in DOMAIN last_result.df_sum :
         LET row == last_result.df_sum[t]
         IN  /\ SumSeq([k \in 1..Len(DivisionCodes) |-> row.summary[DivisionCodes[k]]]) = row.total
             /\ row.total = Len(TunnelRows(t))
    /\ SumSeq([t \in DOMAIN last_result.df_sum |-> last_result.df_sum[t].total]) = last_result.total
    /\ last_result.total = Len(last_result.df_detail)

\* C4 happens: the demo project's four tunnels are computed, 32042 lots.
C4_DemoComputed ==
  /\ Computed
  /\ calc_input = create_demo_project
  /\ Len(last_result.df_sum) = 4
  /\ last_result.total = 32042

\* C5: for every tunnel with positive total_length and positive
\* trolley_length the number of rings generated is
\* ceil(total_length / trolley_length); 1162.898 m at 12.0 m gives 97 rings.
C5_RingCountIsCeiling ==
  Computed =>
    \A t \in DOMAIN calc_input.tunnels :
      LET tunnel == calc_input.tunnels[t]
      IN  (tunnel.total_length > 0 /\ tunnel.trolley_length > 0)
            => Cardinality(CycleNumbers(RingRows(t)))
                 = CeilDiv(tunnel.total_length, tunnel.trolley_length)

\* C5 happens: the tunnel of 1162.898 m with a 12.0 m trolley has 97 rings.
C5_NinetySevenRings ==
  /\ Computed
  /\ \E t \in DOMAIN calc_input.tunnels :
       /\ calc_input.tunnels[t].total_length = 1162898
       /\ calc_input.tunnels[t].trolley_length = 12000
       /\ Cardinality(CycleNumbers(RingRows(t))) = 97

\* C7: for any tunnel, whatever its length and segment list, each
\* single-instance portal / advance-support item has exactly 2 lots, numbered
\* 1 (entry) and 2 (exit), and each multi-part portal item exactly 6 lots,
\* numbered 1-3 (entry) and 4-6 (exit).
C7_PortalLots ==
  Computed =>
    \A t \in DOMAIN calc_input.tunnels :
      LET rows == TunnelRows(t)
          ItemRows(it) == SelectSeq(rows, LAMBDA b : b.d = it[1] /\ b.i = it[2])
          SeqsOf(r, portal) == {SeqOf(r[j]) : j \in {n \in DOMAIN r : r[n].remark[1] = portal}}
      IN  /\ \A it \in { <<"02", "01">>, <<"02", "04">>, <<"03", "01">>, <<"03", "02">>, <<"03", "03">> } :
               LET r == ItemRows(it)
               IN  /\ Len(r) = 2
                   /\ SeqsOf(r, "entry") = {1}
                   /\ SeqsOf(r, "exit") = {2}
          /\ \A it \in { <<"02", "02">>, <<"02", "03">> } :
               LET r == ItemRows(it)
               IN  /\ Len(r) = 6
                   /\ SeqsOf(r, "entry") = {1, 2, 3}
                   /\ SeqsOf(r, "exit") = {4, 5, 6}

\* C7 happens: a tunnel whose segment list holds two portal segments has
\* been computed, with its 22 portal and advance-support lots.
C7_PortalSegmentsComputed ==
  /\ Computed
  /\ \E t \in DOMAIN calc_input.tunnels :
       LET segs == calc_input.tunnels[t].segments
       IN  /\ Len(segs) = 2
           /\ \A k \in DOMAIN segs : segs[k].method = "portal"
           /\ Len(SelectSeq(TunnelRows(t), LAMBDA b : b.d \in {"02", "03"})) = 22

\* C8: every generated cycle of a CD segment has exactly 20 lots, for each
\* of 4 steps one excavation lot and 4 primary-support lots, and every
\* generated cycle of a bench segment exactly 10, for each of 2 steps 1 + 4.
C8_LotsPerCycle ==
  Computed =>
    \A t \in DOMAIN calc_input.tunnels :
      \A k \in DOMAIN calc_input.tunnels[t].segments :
        LET seg == calc_input.tunnels[t].segments[k]
            rows == SegmentRows(t, k)
            lots == {<<rows[j].src.cycle, rows[j].src.step, rows[j].d, rows[j].i>> : j \in DOMAIN rows}
            steps == IF seg.method = "CD" THEN 1..4 ELSE 1..2
            exc == IF seg.method = "CD" THEN "01" ELSE "02"
            items == { <<"04", exc>>, <<"05", "01">>, <<"05", "02">>, <<"05", "03">>, <<"05", "04">> }
        IN  seg.method \in {"CD", "bench"} =>
              /\ Cardinality(lots) = Len(rows)
              /\ lots = {<<c, s, it[1], it[2]>> : c \in CycleNumbers(rows), s \in steps, it \in items}
              /\ Len(rows) = Cardinality(CycleNumbers(rows)) * (IF seg.method = "CD" THEN 20 ELSE 10)

\* C8 happens: a CD segment and a bench segment of one tunnel have been
\* given cycles.
C8_CyclesGenerated ==
  /\ Computed
  /\ \E t \in DOMAIN calc_input.tunnels :
       \E k1, k2 \in DOMAIN calc_input.tunnels[t].segments :
         /\ calc_input.tunnels[t].segments[k1].method = "CD"
         /\ calc_input.tunnels[t].segments[k2].method = "bench"
         /\ Cardinality(CycleNumbers(SegmentRows(t, k1))) >= 2
         /\ Cardinality(CycleNumbers(SegmentRows(t, k2))) >= 2

\* C6: ring k of a tunnel starts (k - 1) trolley lengths from the tunnel's
\* start chainage in the travel direction and spans one trolley length,
\* the final ring being clamped to the tunnel's end; the rings are fixed by
\* the tunnel's start, end and trolley length alone.
C6_RingRanges ==
  Computed =>
    \A t \in DOMAIN calc_input.tunnels :
      LET tunnel == calc_input.tunnels[t]
          trolley == tunnel.trolley_length
          dir_sign == IF tunnel.direction = "forward" THEN 1 ELSE -1
          first == TravelStart(tunnel.start_mileage, tunnel.end_mileage, tunnel.direction)
          last == TravelEnd(tunnel.start_mileage, tunnel.end_mileage, tunnel.direction)
          rows == RingRows(t)
          n == Cardinality(CycleNumbers(rows))
      IN  (trolley > 0 /\ tunnel.total_length > 0) =>
            /\ n = CeilDiv(Abs(tunnel.end_mileage - tunnel.start_mileage), trolley)
            /\ \A j \in DOMAIN rows :
                 LET k == rows[j].src.cycle
                     start == first + (k - 1) * trolley * dir_sign
                 IN  /\ rows[j].mileage[1] = start
                     /\ rows[j].mileage[2] = IF k < n THEN start + trolley * dir_sign ELSE last

\* C6, the case the code produces instead: after a grid save of a reverse
\* tunnel of two segments the tunnel's start equals its end, and its first
\* ring is a point.
C6_PointRing ==
  /\ Computed
  /\ \E t \in DOMAIN calc_input.tunnels :
       LET tunnel == calc_input.tunnels[t]
           rows == RingRows(t)
       IN  /\ tunnel.direction = "reverse"
           /\ Len(tunnel.segments) = 2
           /\ tunnel.start_mileage = tunnel.end_mileage
           /\ tunnel.total_length = 28000
           /\ Cardinality(CycleNumbers(rows)) = 3
           /\ rows[1].mileage[1] = rows[1].mileage[2]

\* C9: a delete-project request made while exactly one project remains
\* leaves the project list unchanged, and the session always holds at least
\* one project.
C9_LastProjectKept ==
  /\ [](Len(projects) >= 1)
  /\ [][(DeleteProject /\ Len(projects) = 1) => projects' = projects]_vars

\* C9 happens: the demo project was deleted after an import, and a delete
\* request for the one project left has been turned down.
C9_DeleteRefused ==
  /\ refused = "project"
  /\ Len(projects) = 1
  /\ projects[1].name = "minimal"

\* C10: a delete-tunnel request made while the current project holds exactly
\* one tunnel leaves its tunnel list unchanged, and no step takes a project
\* that has a tunnel to one that has none.
C10_LastTunnelKept ==
  [][ /\ \A p \in DOMAIN projects :
          (p \in DOMAIN projects' /\ projects[p].tunnels # <<>>) => projects'[p].tunnels # <<>>
      /\ \A k \in DOMAIN current_project.tunnels :
          (DeleteTunnel(current_project.tunnels[k].name) /\ Len(current_project.tunnels) = 1)
            => projects' = projects ]_vars

\* C10 happens: a tunnel was added, the tunnel before it deleted, and a
\* delete request for the one tunnel left has been turned down.
C10_DeleteRefused ==
  /\ refused = "tunnel"
  /\ Len(current_project.tunnels) = 1
  /\ current_project.tunnels[1].name = "new-tunnel"
  /\ current_project.tunnels[1].id = "T2"

\* C11: after any sequence of add-tunnel, delete-tunnel and edit operations
\* no two tunnels of one project have the same id.
C11_TunnelIdsUnique ==
  \A p \in DOMAIN projects :
    \A i, j \in DOMAIN projects[p].tunnels :
      i # j => projects[p].tunnels[i].id # projects[p].tunnels[j].id

\* C11, the case the code produces instead: the first of two tunnels was
\* deleted and a tunnel added; the new tunnel is numbered by the list's
\* length and takes the id "T2" the remaining tunnel already has.
C11_SecondT2 ==
  \E p \in DOMAIN projects :
    /\ Len(projects[p].tunnels) = 2
    /\ projects[p].tunnels[1].id = "T2"
    /\ projects[p].tunnels[2].id = "T2"

\* C12: an import that fails structurally (the file is not JSON, or it has
\* no name) shows an error and leaves the project list, every project and
\* the current-project index as they were.
C12_FailedImportChangesNothing ==
  [][ \A doc \in ShellDocs :
        (ImportProject(doc) /\ (~doc.well_formed \/ "name" \notin DOMAIN doc.data))
          => /\ projects' = projects
             /\ current_project_index' = current_project_index
             /\ refused' = "import" ]_vars

\* C12 happens: after an import that succeeded and the deletion of the demo
\* project, a further import has just been turned down; the list holds the
\* imported project only.
C12_ImportRefused ==
  /\ refused = "import"
  /\ Len(projects) = 1
  /\ current_project_index = 0
  /\ projects[1].name = "minimal"

C16_ReanchorFromEditedRow ==
  [][ \A k \in DOMAIN current_project.tunnels :
        LET before == current_project.tunnels[k]
            df == df_seg(before)
        IN  \A r \in 2..Len(df) :
              \A text \in GridStarts :
                (text # df[r].start /\ SaveSegments(before.name, [df EXCEPT ![r].start = text])) =>
                  LET after == projects'[current_project_index + 1].tunnels[k]
                      seg_of(i) == after.segments[CHOOSE j \in DOMAIN after.segments :
                                                    after.segments[j].name = df[i].name]
                  IN  /\ seg_of(r).start_mileage = text.km * 1000000 + text.m
                      /\ \A i \in r..(Len(df) - 1) :
                           seg_of(i + 1).start_mileage = seg_of(i).end_mileage ]_vars

\* C17: the calculation runs to its end for every project, and a segment
\* whose length or whose advance is not positive gets no excavation cycle:
\* no excavation lot and no primary-support lot.
C17_DegenerateSegmentSkipped ==
  /\ page \in {"calc", "dashboard"} => Computed
  /\ Computed =>
       \A t \in DOMAIN calc_input.tunnels :
         \A k \in DOMAIN calc_input.tunnels[t].segments :
           LET seg == calc_input.tunnels[t].segments[k]
           IN  (seg.length <= 0 \/ seg.advance_per_cycle <= 0) =>
                 /\ SegmentRows(t, k) = <<>>
                 /\ \A j \in DOMAIN last_result.df_detail :
                      LET b == last_result.df_detail[j]
                      IN  (b.src.t = t /\ b.d \in {"04", "05"}) => b.src.seg # k

\* C17 happens: a tunnel whose first segment produced cycles and whose
\* second segment is a CD segment with advance 0 has been computed; so has,
\* in another session, a tunnel with a bench segment of negative length.
C17_ZeroAdvanceComputed ==
  /\ Computed
  /\ page = "calc"
  /\ \E t \in DOMAIN calc_input.tunnels :
       LET segments == calc_input.tunnels[t].segments
       IN  /\ Len(segments) = 2
           /\ SegmentRows(t, 1) # <<>>
           /\ segments[2].method = "CD"
           /\ segments[2].advance_per_cycle = 0
           /\ SegmentRows(t, 2) = <<>>

\* the trolley lengths the standards give by convention: 12 m for a
\* main-line tunnel, 9 m for a ramp
DefaultTrolleyLengths == {12000, 9000}

\* C18: a tunnel whose trolley length is not positive is computed with the
\* default trolley length of the standard: with a positive total length it
\* still gets its ring lots, ceil(total_length / default) rings of them.
C18_DefaultTrolleySubstituted ==
  Computed =>
    \A t \in DOMAIN calc_input.tunnels :
      LET tunnel == calc_input.tunnels[t]
      IN  (tunnel.trolley_length <= 0 /\ tunnel.total_length > 0)
            => /\ RingRows(t) # <<>>
               /\ \E trolley \in DefaultTrolleyLengths :
                    Cardinality(CycleNumbers(RingRows(t)))
                      = CeilDiv(tunnel.total_length, trolley)

\* C18 fails here: a tunnel of positive length with trolley length 0 has
\* been computed, its excavation lots are there and it has no ring lot.
C18_NoRingLots ==
  /\ Computed
  /\ \E t \in DOMAIN calc_input.tunnels :
       /\ calc_input.tunnels[t].trolley_length = 0
       /\ calc_input.tunnels[t].total_length > 0
       /\ TunnelRows(t) # <<>>
       /\ RingRows(t) = <<>>

\* C19: every chainage the segment grid renders reads back as the value it
\* was rendered from: parse_mileage(format_mileage(m)) = m for the start and
\* the end of every segment shown, a negative chainage included.
C19_FormatParseRoundTrip ==
  \A p \in DOMAIN projects :
    \A t \in DOMAIN projects[p].tunnels :
      LET tunnel == projects[p].tunnels[t]
      IN  \A k \in DOMAIN tunnel.segments :
            /\ parse_mileage(df_seg(tunnel)[k].start) = tunnel.segments[k].start_mileage
            /\ parse_mileage(df_seg(tunnel)[k].end) = tunnel.segments[k].end_mileage
            /\ parse_mileage(format_mileage(tunnel.start_mileage)) = tunnel.start_mileage
            /\ parse_mileage(format_mileage(tunnel.end_mileage)) = tunnel.end_mileage

\* C19 fails here: a saved reverse tunnel has a segment that ends below K0,
\* the grid renders that end with a leading "-", and the text reads back
\* as the positive chainage.
C19_NegativeReadsPositive ==
  /\ saves > 0
  /\ \E p \in DOMAIN projects :
       \E t \in DOMAIN projects[p].tunnels :
         LET tunnel == projects[p].tunnels[t]
         IN  /\ tunnel.direction = "reverse"
             /\ \E k \in DOMAIN tunnel.segments :
                  /\ tunnel.segments[k].end_mileage < 0
                  /\ df_seg(tunnel)[k].end.neg
                  /\ parse_mileage(df_seg(tunnel)[k].end) = -tunnel.segments[k].end_mileage

\* C20: after a grid save every segment of the saved tunnel has the step
\* count of its method, 4 for CD and 2 for bench, whatever step count the
\* segment had before and whatever the row showed; two segments of one
\* method never differ in it.
C20_StepsFollowMethod ==
  [][ \A k \in DOMAIN current_project.tunnels :
        \A edited_df \in GridEdits(df_seg(current_project.tunnels[k])) :
          SaveSegments(current_project.tunnels[k].name, edited_df) =>
            LET after == projects'[current_project_index + 1].tunnels[k]
            IN  /\ Len(after.segments) = Len(edited_df)
                /\ \A i \in DOMAIN after.segments :
                     /\ after.segments[i].method = "CD" => after.segments[i].steps = 4
                     /\ after.segments[i].method = "bench" => after.segments[i].steps = 2
                     /\ \A j \in DOMAIN after.segments :
                          after.segments[i].method = after.segments[j].method
                            => after.segments[i].steps = after.segments[j].steps ]_vars

\* C20 happens: the CD segment of 8.2 m, imported with 2 steps, has 4 steps
\* after the grid was saved.
C20_ImportedStepsReplaced ==
  /\ saves > 0
  /\ \E t \in DOMAIN projects[1].tunnels :
       \E k \in DOMAIN projects[1].tunnels[t].segments :
         LET seg == projects[1].tunnels[t].segments[k]
         IN  /\ seg.method = "CD"
             /\ seg.length = 8200
             /\ seg.steps = 4

C22_DiscontinuityWarned ==
  [][ LET shown == get_paragraphs_with_positions(editor_tunnel)
      IN  \A r \in DOMAIN shown : \A t \in EditorStarts :
            ( /\ r > 1
              /\ Abs(new_start_m(t) - editor_tunnel.sections[r - 1].end_mileage) > Tolerance
              /\ EditGrid([shown EXCEPT ![r].start = t]) )
            => BreakIssue(r) \in Range(editor_issues') ]_vars

\* C23: whenever the dashboard shows its charts, the bar heights of Chart A
\* (one bar per tunnel, its total) add up to the same number as the pie
\* values of Chart B (one slice per division, summed over the tunnels), and
\* that number is the project's grand total.
C23_ChartsAgree ==
  (page = "dashboard" /\ last_result.df_sum # <<>>) =>
    /\ Computed
    /\ Len(bar_heights(last_result.df_sum)) = Len(current_project.tunnels)
    /\ SumSeq(bar_heights(last_result.df_sum)) = SumSeq(total_series(last_result.df_sum))
    /\ SumSeq(bar_heights(last_result.df_sum)) = last_result.total

\* C23 happens: the dashboard shows the demo project, four bars and eight
\* slices that add up to 32042 lots each.
C23_DemoDashboard ==
  /\ page = "dashboard"
  /\ current_project = create_demo_project
  /\ Len(bar_heights(last_result.df_sum)) = 4
  /\ SumSeq(bar_heights(last_result.df_sum)) = 32042
  /\ SumSeq(total_series(last_result.df_sum)) = 32042

\* C24: after a save of the segment grid and after a save of the basic
\* info, for a forward and for a reverse tunnel, the saved tunnel starts
\* where its first segment in travel order starts (the lowest start of a
\* forward tunnel, the highest of a reverse one) and its total length is
\* |end - start|.
C24_TunnelRangeFollowsSegments ==
  [][ \A k \in DOMAIN current_project.tunnels :
        LET before == current_project.tunnels[k]
            after == projects'[current_project_index + 1].tunnels[k]
            sign == IF after.direction = "forward" THEN 1 ELSE -1
            first == CHOOSE i \in DOMAIN after.segments :
                       \A j \in DOMAIN after.segments :
                         sign * after.segments[i].start_mileage
                           <= sign * after.segments[j].start_mileage
        IN  ( \/ \E edited_df \in GridEdits(df_seg(before)) :
                   SaveSegments(before.name, edited_df) /\ edited_df # <<>>
              \/ \E new_dir \in Directions, new_trolley \in {9000, 12000} :
                   SaveBasicInfo(before.name, before.id, before.name, new_dir, new_trolley)
                     /\ before.segments # <<>> )
            => /\ after.start_mileage = after.segments[first].start_mileage
               /\ after.total_length = Abs(after.end_mileage - after.start_mileage) ]_vars

\* C24 fails here: a reverse tunnel of two segments was saved from the grid;
\* its start and its end are both the chainage where the segments meet,
\* while its total length is the sum of the two lengths.
C24_ReverseRangeCollapsed ==
  /\ saves > 0
  /\ \E t \in DOMAIN projects[1].tunnels :
       LET tunnel == projects[1].tunnels[t]
       IN  /\ tunnel.direction = "reverse"
           /\ Len(tunnel.segments) = 2
           /\ tunnel.start_mileage = tunnel.end_mileage
           /\ tunnel.start_mileage = tunnel.segments[2].end_mileage
           /\ tunnel.segments[2].start_mileage > tunnel.start_mileage
           /\ tunnel.total_length = tunnel.segments[1].length + tunnel.segments[2].length

\* C25: whenever the calculation page or the dashboard is shown, the result
\* it shows is what the calculator gives for the project that is selected
\* now, as that project is now; a result computed from another project, or
\* from the project before a change, is never on display.
C25_ResultIsCurrent ==
  page \in {"calc", "dashboard"} =>
    /\ Computed
    /\ calc_input = current_project
    /\ last_result = calculate(current_project)

\* C25 fails here: on the calculation page the second project of the list
\* is selected and the result on display was computed from the first, a
\* different project.
C25_OtherProjectShown ==
  /\ page = "calc"
  /\ Len(projects) = 2
  /\ current_project_index = 1
  /\ projects[1] # projects[2]
  /\ calc_input = projects[1]
  /\ last_result = calculate(projects[1])
  /\ last_result.total # calculate(projects[2]).total


C27_ActiveProjectExists ==
  /\ Len(projects) >= 1
  /\ current_project_index \in 0..(Len(projects) - 1)

\* a file was imported, the demo project selected and deleted, and a new
\* project created: the new project, the list's last entry, is the active one
C27_AfterImportSelectDeleteCreate ==
  /\ Len(projects) = 2
  /\ projects[1].name = "minimal"
  /\ projects[2].name = "new-project_2"
  /\ current_project_index = 1

\* C28: within the result computed for one tunnel no two lot records carry
\* the same code: the tunnel's detail rows have as many different codes as
\* there are rows.
C28_CodesUniqueInTunnel ==
  Computed =>
    \A t \in DOMAIN calc_input.tunnels :
      LET rows == TunnelRows(t)
      IN  Cardinality({rows[j].code : j \in DOMAIN rows}) = Len(rows)

\* C28, the case the code produces instead: two segments of one tunnel built
\* with the same method, each with the step count of its method, both start
\* their numbering at 1, so the first excavation lot of the one and the
\* first excavation lot of the other carry the same code.
C28_SameMethodCollision ==
  /\ Computed
  /\ \E t \in DOMAIN calc_input.tunnels :
       \E k1, k2 \in DOMAIN calc_input.tunnels[t].segments :
         LET seg1 == calc_input.tunnels[t].segments[k1]
             seg2 == calc_input.tunnels[t].segments[k2]
             rows1 == SegmentRows(t, k1)
             rows2 == SegmentRows(t, k2)
         IN  /\ k1 < k2
             /\ seg1.method = seg2.method
             /\ seg1.steps = seg2.steps
             /\ seg1.steps = (IF seg1.method = "CD" THEN 4 ELSE 2)
             /\ rows1 # <<>> /\ rows2 # <<>>
             /\ rows1[1].code = rows2[1].code
             /\ rows1[1].src.seg # rows2[1].src.seg

\* C29: saving the segment grid a second time, with the grid as the first
\* save left it, changes nothing: segment order, every segment's chainages
\* and the tunnel's start, end and total length stay as the first save set
\* them, for forward and for reverse tunnels.
C29_SaveIdempotent ==
  \A t \in DOMAIN current_project.tunnels :
    LET once == save_segments(current_project.tunnels[t], df_seg(current_project.tunnels[t]))
        twice == save_segments(once, df_seg(once))
    IN  twice = once

\* C29, the case the code produces instead: on a reverse tunnel of two
\* segments the second save starts the chain at the first row of the sorted
\* list, the segment of lowest chainage, so the other segment is moved below
\* it and the order of the two is turned round.
C29_ReverseSecondSaveMoves ==
  /\ saves > 0
  /\ \E t \in DOMAIN current_project.tunnels :
       LET tunnel == current_project.tunnels[t]
           again == save_segments(tunnel, df_seg(tunnel))
       IN  /\ tunnel.direction = "reverse"
           /\ Len(tunnel.segments) = 2
           /\ tunnel.start_mileage >= 0 /\ tunnel.end_mileage >= 0
           /\ again.segments[1].name = tunnel.segments[2].name
           /\ again.segments[1].end_mileage < tunnel.segments[1].start_mileage
           /\ again.segments[1].end_mileage < tunnel.segments[2].end_mileage

\* C30: every tunnel of the current project can be picked in the select box
\* and the handlers then work on that very tunnel: for the name shown at
\* position k of the box, target_tunnel is k.
C30_SelectionHitsTunnel ==
  \A k \in DOMAIN current_project.tunnels :
    target_tunnel(current_project.tunnels[k].name) = k

\* C30, the case the code produces instead: a project whose first tunnel was
\* added with "add the first tunnel" and whose second with "add tunnel" holds
\* two tunnels named alike; picking the second, T2, yields the first, NEW,
\* and a delete issued then removes NEW and keeps T2.
C30_SecondTunnelOutOfReach ==
  /\ page = "config"
  /\ Len(current_project.tunnels) = 2
  /\ current_project.tunnels[1].id = "NEW"
  /\ current_project.tunnels[2].id = "T2"
  /\ current_project.tunnels[1].name = current_project.tunnels[2].name
  /\ target_tunnel(current_project.tunnels[2].name) = 1
  /\ ListRemove(current_project.tunnels,
                current_project.tunnels[target_tunnel(current_project.tunnels[2].name)])
       = <<current_project.tunnels[2]>>

=========================================================================
